---- MODULE Spec2Model ----
(***************************************************************************)
(* Model of the Redshift Data API connector (sources/redshift/redshift.py). *)
(*                                                                         *)
(* One connector instance serves one host-pipeline call at a time.  Every  *)
(* remote call (execute_statement, describe_statement,                     *)
(* get_statement_result) is one step whose response is chosen by the       *)
(* remote service.  Python strings are sequences of atoms: an atom is     *)
(* either the dot "." or a dot-free fragment such as "public".             *)
(***************************************************************************)
EXTENDS FiniteSets, Integers, Sequences, TLC

(* ---------------------------------------------------------------- bounds *)
MaxPollAttempts == 3
MaxTables == 12
MaxRows == 3
MaxPages == 3

(* ------------------------------------------------------- Python values   *)
None == [py |-> "None"]
EmptyDict == <<>>
PyStr(s) == [py |-> "str", s |-> s]
PyInt(i) == [py |-> "int", i |-> i]
PyBool(b) == [py |-> "bool", b |-> b]

\* Python truthiness of a decoded scalar
Truthy(v) ==
    CASE v.py = "None" -> FALSE
      [] v.py = "str" -> v.s # <<>>
      [] v.py = "int" -> v.i # 0
      [] v.py = "bool" -> v.b
      [] v.py = "list" -> v.items # <<>>
      [] OTHER -> TRUE

\* str(v) as an f-string renders it
Format(v) ==
    CASE v.py = "str" -> v.s
      [] v.py = "int" -> <<ToString(v.i)>>
      [] v.py = "bool" -> <<IF v.b THEN "True" ELSE "False">>
      [] OTHER -> <<"None">>

\* dict.get(key, default)
Get(d, key, default) == IF key \in DOMAIN d THEN d[key] ELSE default

(* ------------------------------------------------------- Value Decoder   *)
\* faulty variant: a string is preferred to a boolean
_extract_value_StringFirst(field_data) ==
    IF Get(field_data, "isNull", FALSE) THEN None
    ELSE IF "stringValue" \in DOMAIN field_data THEN field_data["stringValue"]
    ELSE IF "booleanValue" \in DOMAIN field_data THEN field_data["booleanValue"]
    ELSE IF "longValue" \in DOMAIN field_data THEN field_data["longValue"]
    ELSE IF "doubleValue" \in DOMAIN field_data THEN field_data["doubleValue"]
    ELSE IF "blobValue" \in DOMAIN field_data THEN field_data["blobValue"]
    ELSE None

\* lines 275-298
_extract_value(field_data) ==
    IF Get(field_data, "isNull", FALSE) THEN None
    ELSE IF "booleanValue" \in DOMAIN field_data THEN field_data["booleanValue"]
    ELSE IF "longValue" \in DOMAIN field_data THEN field_data["longValue"]
    ELSE IF "doubleValue" \in DOMAIN field_data THEN field_data["doubleValue"]
    ELSE IF "stringValue" \in DOMAIN field_data THEN field_data["stringValue"]
    ELSE IF "blobValue" \in DOMAIN field_data THEN field_data["blobValue"]
    ELSE None

(* ------------------------------------------------------- table names     *)
\* index of the first "." atom of a string, 0 when there is none
RECURSIVE FirstDot(_, _)
FirstDot(s, i) ==
    IF i > Len(s) THEN 0
    ELSE IF s[i] = "." THEN i
    ELSE FirstDot(s, i + 1)

\* table_name.split(".", 1), then the two-part / one-part branch
_parse_table_name(table_name) ==
    LET d == FirstDot(table_name, 1) IN
    IF d # 0
    THEN <<SubSeq(table_name, 1, d - 1), SubSeq(table_name, d + 1, Len(table_name))>>
    ELSE <<(<<"public">>), table_name>>

\* f"{schema}.{table}"
QualifiedName(schema, table) == Format(schema) \o <<".">> \o Format(table)

(* ------------------------------------------------------- Type Mapper     *)
\* A type name is a string of one-character atoms.
UpperCase == 
    <<"A", "B", "C", "D", "E", "F", "G", "H", "I", "J", "K", "L", "M">> \o
    <<"N", "O", "P", "Q", "R", "S", "T", "U", "V", "W", "X", "Y", "Z">>
LowerCase == 
    <<"a", "b", "c", "d", "e", "f", "g", "h", "i", "j", "k", "l", "m">> \o
    <<"n", "o", "p", "q", "r", "s", "t", "u", "v", "w", "x", "y", "z">>

\* str.lower() of one character: a capital letter becomes its small letter,
\* every other character is kept
LowerAtom(a) ==
    IF \E i \in 1..Len(UpperCase) : UpperCase[i] = a
    THEN LowerCase[CHOOSE i \in 1..Len(UpperCase) : UpperCase[i] = a]
    ELSE a

\* faulty variant: the name is compared as spelled
Lower_AsSpelled(s) == s

\* redshift_type.lower()
Lower(s) == [i \in 1..Len(s) |-> LowerAtom(s[i])]

\* the characters of a string written as one atom
RECURSIVE Text(_)
Text(s) == IF s = <<>> THEN "" ELSE Head(s) \o Text(Tail(s))

SimpleType(name) == [type |-> name]

_map_redshift_type_to_spark(redshift_type, precision, scale, char_max_length) ==
    LET t == Text(Lower(redshift_type)) IN
    IF t \in {"smallint", "int2"} THEN SimpleType("LongType")
    ELSE IF t \in {"integer", "int", "int4"} THEN SimpleType("LongType")
    ELSE IF t \in {"bigint", "int8"} THEN SimpleType("LongType")
    ELSE IF t \in {"numeric", "decimal"}
         THEN [type |-> "DecimalType",
               precision |-> IF precision # None THEN precision ELSE PyInt(18),
               scale |-> IF scale # None THEN scale ELSE PyInt(0)]
    ELSE IF t \in {"real", "float4"} THEN SimpleType("FloatType")
    ELSE IF t \in {"double precision", "float8", "float"} THEN SimpleType("DoubleType")
    ELSE IF t \in {"boolean", "bool"} THEN SimpleType("BooleanType")
    ELSE IF t \in {"character", "char", "bpchar"} THEN SimpleType("StringType")
    ELSE IF t \in {"character varying", "varchar"} THEN SimpleType("StringType")
    ELSE IF t = "text" THEN SimpleType("StringType")
    ELSE IF t = "date" THEN SimpleType("DateType")
    ELSE IF t \in {"timestamp", "timestamp without time zone"} THEN SimpleType("TimestampType")
    ELSE IF t \in {"timestamptz", "timestamp with time zone"} THEN SimpleType("TimestampType")
    ELSE IF t \in {"time", "time without time zone", "timetz", "time with time zone"}
         THEN SimpleType("StringType")
    ELSE IF t = "interval" THEN SimpleType("StringType")
    ELSE IF t = "varbyte" THEN SimpleType("BinaryType")
    ELSE IF t = "super" THEN SimpleType("StringType")
    ELSE IF t \in {"geometry", "geography"} THEN SimpleType("StringType")
    ELSE IF t = "hllsketch" THEN SimpleType("StringType")
    ELSE SimpleType("StringType")

(* ------------------------------------------------------- SQL statements  *)
\* the schemas list_tables always excludes
SystemSchemas == <<(<<"pg_catalog">>), (<<"information_schema">>), (<<"pg_internal">>)>>

\* faulty variant: the allow-list is left out of the query
CatalogSql_Unfiltered(schema_filter) ==
    [kind |-> "catalog", not_in |-> SystemSchemas, schema_in |-> None]

\* list_tables, lines 247-262: the information_schema.tables query, its
\* NOT IN list and, when self.schema_filter is truthy, its IN list
CatalogSql(schema_filter) ==
    [kind |-> "catalog",
     not_in |-> SystemSchemas,
     schema_in |-> IF Truthy(schema_filter) THEN schema_filter ELSE None]

\* get_table_schema: the information_schema.columns query
ColumnsSql(schema_name, table) ==
    [kind |-> "columns", schema_name |-> schema_name, table |-> table]

\* read_table_metadata: the primary-key constraint query
KeysSql(schema_name, table) ==
    [kind |-> "keys", schema_name |-> schema_name, table |-> table]

\* builtin int() on a string of one-character atoms: surrounding blanks are
\* stripped, one sign is allowed, digits may be grouped by single underscores
Digits == <<"0", "1", "2", "3", "4", "5", "6", "7", "8", "9">>

IsDigit(c) == \E d \in 1..Len(Digits) : Digits[d] = c

DigitValue(c) == (CHOOSE d \in 1..Len(Digits) : Digits[d] = c) - 1

RECURSIVE Strip(_)
Strip(s) ==
    IF s = <<>> THEN s
    ELSE IF Head(s) = " " THEN Strip(Tail(s))
    ELSE IF s[Len(s)] = " " THEN Strip(SubSeq(s, 1, Len(s) - 1))
    ELSE s

RECURSIVE DecimalValue(_, _)
DecimalValue(body, acc) ==
    IF body = <<>> THEN acc
    ELSE IF Head(body) = "_" THEN DecimalValue(Tail(body), acc)
    ELSE DecimalValue(Tail(body), 10 * acc + DigitValue(Head(body)))

ValueError == [ValueError |-> TRUE]

int(x) ==
    LET t == Strip(x)
        signed == t # <<>> /\ Head(t) \in {"+", "-"}
        body == IF signed THEN Tail(t) ELSE t
        valid == /\ body # <<>>
                 /\ \A i \in 1..Len(body) : IsDigit(body[i]) \/ body[i] = "_"
                 /\ body[1] # "_"
                 /\ body[Len(body)] # "_"
                 /\ \A i \in 1..(Len(body) - 1) : ~(body[i] = "_" /\ body[i + 1] = "_")
    IN IF ~valid THEN ValueError
       ELSE IF signed /\ Head(t) = "-" THEN PyInt(0 - DecimalValue(body, 0))
       ELSE PyInt(DecimalValue(body, 0))

\* faulty variant: the limit is appended unparsed
LimitSql_Verbatim(limit) ==
    IF Truthy(limit) THEN <<" LIMIT ">> \o limit.s ELSE <<>>

\* read_table, lines 574-580: the LIMIT suffix of the scan statement
LimitSql(limit) ==
    IF Truthy(limit)
    THEN (IF int(limit.s) # ValueError
          THEN <<" LIMIT ">> \o Format(int(limit.s))
          ELSE <<>>)
    ELSE <<>>

\* read_table, lines 569-571: the WHERE suffix of the scan statement
WhereSql(where_clause) ==
    IF Truthy(where_clause) THEN <<" WHERE ">> \o where_clause.s ELSE <<>>

\* faulty variant: the scan resumes after the offset it was handed
ScanSql_FromOffset(schema_name, table, start_offset, table_options) ==
    [kind |-> "scan", schema_name |-> schema_name, table |-> table,
     text |-> <<"SELECT * FROM ", "\"">> \o schema_name \o <<"\"", ".", "\"">>
              \o table \o <<"\"">>
              \o (IF "cursor" \in DOMAIN start_offset
                  THEN <<" WHERE id > ">> \o Format(start_offset.cursor)
                  ELSE WhereSql(Get(table_options, "where_clause", None)))
              \o LimitSql(Get(table_options, "limit", None))]

\* read_table, lines 562-580: SELECT * FROM "<schema>"."<table>" with the
\* optional WHERE and LIMIT suffixes; start_offset takes no part in it
ScanSql(schema_name, table, start_offset, table_options) ==
    [kind |-> "scan", schema_name |-> schema_name, table |-> table,
     text |-> <<"SELECT * FROM ", "\"">> \o schema_name \o <<"\"", ".", "\"">>
              \o table \o <<"\"">>
              \o WhereSql(Get(table_options, "where_clause", None))
              \o LimitSql(Get(table_options, "limit", None))]

(* ------------------------------------------------------- errors          *)
Raise(type, text, detail) ==
    [kind |-> "error", type |-> type, text |-> text, detail |-> detail]

Return(value) == [kind |-> "ok", value |-> value]

NoOutcome == [kind |-> "none"]

\* faulty variant: the list is never truncated
NotSupportedMessage_Untruncated(table_name, available_tables) ==
    [named |-> <<table_name>>, tables |-> available_tables, ellipsis |-> FALSE]

\* The message of the "is not supported" ValueError.  The conditional
\* expression takes the two concatenated f-strings as its first branch and
\* the bare list as its second.
NotSupportedMessage(table_name, available_tables) ==
    IF Len(available_tables) > 10
    THEN [named |-> <<table_name>>,
          tables |-> SubSeq(available_tables, 1, 10),
          ellipsis |-> TRUE]
    ELSE [named |-> <<>>,
          tables |-> available_tables,
          ellipsis |-> FALSE]

\* faulty variant: the membership test is skipped
NotListed_Never(table_name, available_tables) == FALSE

\* table_name not in available_tables
NotListed(table_name, available_tables) ==
    \A i \in 1..Len(available_tables) : available_tables[i] # table_name

(* ------------------------------------------------------- result shaping  *)
\* list_tables, lines 266-273: one "schema.table" entry per record whose
\* schema and table are both truthy
RECURSIVE ListedTables(_)
ListedTables(recs) ==
    IF recs = <<>> THEN <<>>
    ELSE LET record == Head(recs)
             schema == _extract_value(record[1])
             table == _extract_value(record[2])
         IN (IF Truthy(schema) /\ Truthy(table)
             THEN <<QualifiedName(schema, table)>>
             ELSE <<>>) \o ListedTables(Tail(recs))

\* faulty variant: every field is declared nullable
SchemaField_AlwaysNullable(record) ==
    [name |-> _extract_value(record[1]),
     dataType |-> _map_redshift_type_to_spark(_extract_value(record[2]).s,
                                              _extract_value(record[5]),
                                              _extract_value(record[6]),
                                              _extract_value(record[4])),
     nullable |-> TRUE]

\* get_table_schema, lines 451-470: one StructField per record
SchemaField(record) ==
    LET col_name == _extract_value(record[1])
        data_type == _extract_value(record[2])
        is_nullable_str == _extract_value(record[3])
        char_max_length == _extract_value(record[4])
        numeric_precision == _extract_value(record[5])
        numeric_scale == _extract_value(record[6])
        is_nullable == IF Truthy(is_nullable_str)
                       THEN is_nullable_str = PyStr(<<"YES">>)
                       ELSE TRUE
    IN [name |-> col_name,
        dataType |-> _map_redshift_type_to_spark(data_type.s, numeric_precision,
                                                  numeric_scale, char_max_length),
        nullable |-> is_nullable]

StructType(recs) == [i \in 1..Len(recs) |-> SchemaField(recs[i])]

\* faulty variant: the key columns come out in reverse order
RECURSIVE PrimaryKeys_Reversed(_)
PrimaryKeys_Reversed(recs) ==
    IF recs = <<>> THEN <<>>
    ELSE LET col_name == _extract_value(Head(recs)[1])
         IN PrimaryKeys_Reversed(Tail(recs)) \o
            (IF Truthy(col_name) THEN <<col_name>> ELSE <<>>)

\* read_table_metadata, lines 517-521
RECURSIVE PrimaryKeys(_)
PrimaryKeys(recs) ==
    IF recs = <<>> THEN <<>>
    ELSE LET col_name == _extract_value(Head(recs)[1])
         IN (IF Truthy(col_name) THEN <<col_name>> ELSE <<>>) \o PrimaryKeys(Tail(recs))

Min(a, b) == IF a < b THEN a ELSE b

\* faulty variant: missing fields are filled with nulls
RecordDict_Padded(record, column_names) ==
    [c \in {column_names[i] : i \in 1..Len(column_names)} |->
        LET i == CHOOSE j \in 1..Len(column_names) : column_names[j] = c
        IN IF i <= Len(record) THEN _extract_value(record[i]) ELSE None]

\* read_table.record_generator, lines 612-617: the dict built from one raw
\* record; a later field with the same column name overwrites an earlier one
RecordDict(record, column_names) ==
    LET n == Min(Len(record), Len(column_names))
        last(c) == CHOOSE i \in 1..n :
                      /\ column_names[i] = c
                      /\ \A j \in 1..n : column_names[j] = c => j <= i
    IN [c \in {column_names[i] : i \in 1..n} |-> _extract_value(record[last(c)])]

(* ------------------------------------------------------- remote service  *)
Field(s) == [stringValue |-> PyStr(s)]
NullField == [isNull |-> TRUE]
LongField(i) == [longValue |-> PyInt(i)]

\* rows of information_schema.tables in the warehouse, in query order
CatalogRow(i) ==
    IF i = 1 THEN <<Field(<<"analytics">>), NullField>>
    ELSE IF i = 2 THEN <<Field(<<"public">>), Field(<<"users">>)>>
    ELSE <<Field(<<"sales">>), Field(<<"t" \o ToString(i)>>)>>

RawCatalog(n) == [i \in 1..n |-> CatalogRow(i)]

\* the rows information_schema.tables holds for the system schemas
SystemRows ==
    <<(<<Field(<<"information_schema">>), Field(<<"tables">>)>>),
      (<<Field(<<"pg_catalog">>), Field(<<"pg_class">>)>>),
      (<<Field(<<"pg_internal">>), Field(<<"redshift_auto_health_check">>)>>)>>

\* information_schema.tables of a warehouse with n user tables, by schema
AllTables(n) ==
    IF n = 0 THEN SystemRows
    ELSE <<CatalogRow(1)>> \o SystemRows \o SubSeq(RawCatalog(n), 2, n)

\* the WHERE condition of the catalog query on one row
Selects(statement, row) ==
    LET schema == row[1].stringValue.s IN
    /\ \A i \in 1..Len(statement.not_in) : statement.not_in[i] # schema
    /\ \/ statement.schema_in = None
       \/ \E i \in 1..Len(statement.schema_in.items) :
             statement.schema_in.items[i] = schema

\* the rows the catalog query returns
CatalogResult(statement, n) ==
    SelectSeq(AllTables(n), LAMBDA row : Selects(statement, row))

\* rows of information_schema.columns for a table
ColumnRow(i) ==
    IF i = 1
    THEN <<Field(<<"id">>), Field(<<"I", "N", "T", "E", "G", "E", "R">>), Field(<<"NO">>),
           NullField, LongField(32), LongField(0), LongField(1)>>
    ELSE <<Field(<<"name">>), Field(<<"V", "a", "r", "C", "h", "a", "r">>), Field(<<"YES">>),
           LongField(50), NullField, NullField, LongField(i)>>

\* rows of the primary-key query for a table: column name and ordinal position
KeyRow(i) ==
    IF i = 1 THEN <<Field(<<"id">>), LongField(i)>>
    ELSE <<Field(<<"part" \o ToString(i)>>), LongField(i)>>

\* rows of a table scan: two columns, with rows of two, three and one field
ScanColumns == <<[name |-> "id"], [name |-> "name"]>>

ScanRow(i) ==
    IF i = 2 THEN <<LongField(2), NullField, [booleanValue |-> PyBool(TRUE)]>>
    ELSE IF i = 3 THEN <<LongField(3)>>
    ELSE <<LongField(i), Field(<<"ann">>)>>

\* every way to cut rows into at most p consecutive pages (pages may be empty)
RECURSIVE Pagings(_, _)
Pagings(rows, p) ==
    IF p <= 1 THEN {<<rows>>}
    ELSE {<<rows>>} \cup
         UNION {{<<SubSeq(rows, 1, k)>> \o rest :
                    rest \in Pagings(SubSeq(rows, k + 1, Len(rows)), p - 1)} :
                k \in 0..Len(rows)}

\* rows cut into pages of k rows
RECURSIVE Chunk(_, _)
Chunk(rows, k) ==
    IF Len(rows) <= k THEN <<rows>>
    ELSE <<SubSeq(rows, 1, k)>> \o Chunk(SubSeq(rows, k + 1, Len(rows)), k)

\* botocore's ClientError, raised by a remote call
ClientError == [ClientError |-> TRUE]

MaxColumns == 2
MaxRequests == 3
MaxKeys == 2
CatalogPageRows == {5, MaxTables}
\* catalogs listing no table, one table, ten tables and eleven tables
CatalogSizes == {0, 1, 2, MaxTables - 1, MaxTables}
TableNames == {<<"public", ".", "users">>, <<"users">>, <<"nonexistent", ".", "table">>}
Operations == {"list_tables", "get_table_schema", "read_table_metadata", "read_table"}
NonTerminal == {"SUBMITTED", "PICKED", "STARTED"}

\* the typed variants of a Data API field, in the order _extract_value tests
\* them, and a value for each; the boolean, the number and the string are
\* falsy ones
Variants == <<"booleanValue", "longValue", "doubleValue", "stringValue", "blobValue">>

VariantValues(key) ==
    CASE key = "booleanValue" -> {PyBool(FALSE), PyBool(TRUE)}
      [] key = "longValue" -> {PyInt(0)}
      [] key = "doubleValue" -> {[py |-> "float", f |-> "1.5"]}
      [] key = "stringValue" -> {PyStr(<<>>)}
      [] OTHER -> {[py |-> "bytes", b |-> "00"]}

\* every field dictionary over isNull and the typed variants
FieldDatas ==
    UNION {UNION {{[k \in keys |-> IF k = "isNull" THEN null
                                   ELSE IF k = "booleanValue" THEN b
                                   ELSE CHOOSE v \in VariantValues(k) : TRUE] :
                      b \in VariantValues("booleanValue")} :
                  null \in BOOLEAN} :
           keys \in SUBSET ({"isNull"} \cup {Variants[i] : i \in 1..Len(Variants)})}

\* the type names of the table of _map_redshift_type_to_spark, lines 339-397
DocumentedNames ==
    {<<"s", "m", "a", "l", "l", "i", "n", "t">>,
     <<"i", "n", "t", "2">>,
     <<"i", "n", "t", "e", "g", "e", "r">>,
     <<"i", "n", "t">>,
     <<"i", "n", "t", "4">>,
     <<"b", "i", "g", "i", "n", "t">>,
     <<"i", "n", "t", "8">>,
     <<"n", "u", "m", "e", "r", "i", "c">>,
     <<"d", "e", "c", "i", "m", "a", "l">>,
     <<"r", "e", "a", "l">>,
     <<"f", "l", "o", "a", "t", "4">>,
     <<"d", "o", "u", "b", "l", "e", " ", "p", "r", "e", "c", "i", "s", "i", "o", "n">>,
     <<"f", "l", "o", "a", "t", "8">>,
     <<"f", "l", "o", "a", "t">>,
     <<"b", "o", "o", "l", "e", "a", "n">>,
     <<"b", "o", "o", "l">>,
     <<"c", "h", "a", "r", "a", "c", "t", "e", "r">>,
     <<"c", "h", "a", "r">>,
     <<"b", "p", "c", "h", "a", "r">>,
     <<"c", "h", "a", "r", "a", "c", "t", "e", "r", " ", "v", "a", "r", "y", "i", "n", "g">>,
     <<"v", "a", "r", "c", "h", "a", "r">>,
     <<"t", "e", "x", "t">>,
     <<"d", "a", "t", "e">>,
     <<"t", "i", "m", "e", "s", "t", "a", "m", "p">>,
     <<"t", "i", "m", "e", "s", "t", "a", "m", "p", " ", "w", "i", "t", "h", "o", "u", "t", " ", "t", "i", "m", "e", " ", "z", "o", "n", "e">>,
     <<"t", "i", "m", "e", "s", "t", "a", "m", "p", "t", "z">>,
     <<"t", "i", "m", "e", "s", "t", "a", "m", "p", " ", "w", "i", "t", "h", " ", "t", "i", "m", "e", " ", "z", "o", "n", "e">>,
     <<"t", "i", "m", "e">>,
     <<"t", "i", "m", "e", " ", "w", "i", "t", "h", "o", "u", "t", " ", "t", "i", "m", "e", " ", "z", "o", "n", "e">>,
     <<"t", "i", "m", "e", "t", "z">>,
     <<"t", "i", "m", "e", " ", "w", "i", "t", "h", " ", "t", "i", "m", "e", " ", "z", "o", "n", "e">>,
     <<"i", "n", "t", "e", "r", "v", "a", "l">>,
     <<"v", "a", "r", "b", "y", "t", "e">>,
     <<"s", "u", "p", "e", "r">>,
     <<"g", "e", "o", "m", "e", "t", "r", "y">>,
     <<"g", "e", "o", "g", "r", "a", "p", "h", "y">>,
     <<"h", "l", "l", "s", "k", "e", "t", "c", "h">>}

\* names the table does not hold, the empty name among them
OtherNames ==
    {<<"j", "s", "o", "n">>,
     <<"u", "u", "i", "d">>,
     <<"m", "o", "n", "e", "y">>,
     <<"i", "n", "t", "1", "6">>,
     <<"i", "n", "t", "e", "g", "e", "r", " ">>,
     <<"d", "o", "u", "b", "l", "e", "p", "r", "e", "c", "i", "s", "i", "o", "n">>,
     <<"t", "i", "m", "e", "s", "t", "a", "m", "p", " ", "w", "i", "t", "h", " ", "t", "i", "m", "e", "z", "o", "n", "e">>} \cup {<<>>}

\* a name with its letters capitalised at the positions of a pattern
UpperAtom(a) ==
    IF \E i \in 1..Len(LowerCase) : LowerCase[i] = a
    THEN UpperCase[CHOOSE i \in 1..Len(LowerCase) : LowerCase[i] = a]
    ELSE a

Casings == {"lower", "UPPER", "Title", "aLtErNaTe"}

Cased(name, casing) ==
    [i \in 1..Len(name) |->
        IF \/ casing = "UPPER"
           \/ casing = "Title" /\ i = 1
           \/ casing = "aLtErNaTe" /\ i % 2 = 0
        THEN UpperAtom(name[i])
        ELSE name[i]]

\* the arguments _map_redshift_type_to_spark is applied to
MapperInputs ==
    {[op |-> "_map_redshift_type_to_spark", redshift_type |-> Cased(name, casing),
      precision |-> precision, scale |-> scale, char_max_length |-> char_max_length] :
        name \in DocumentedNames \cup OtherNames, casing \in Casings,
        precision \in {None, PyInt(10)}, scale \in {None, PyInt(0), PyInt(2)},
        char_max_length \in {None, PyInt(50)}}

\* constructor options: every way to give or omit region, database and the
\* two targets, with an empty region among them
TargetOptions ==
    {region @@ database @@ cluster @@ workgroup @@ [max_poll_attempts |-> PyStr(<<"1">>)] :
        region \in {EmptyDict, [region |-> PyStr(<<>>)], [region |-> PyStr(<<"us-east-1">>)]},
        database \in {EmptyDict, [database |-> PyStr(<<"dev">>)]},
        cluster \in {EmptyDict, [cluster_identifier |-> PyStr(<<"cluster-1">>)]},
        workgroup \in {EmptyDict, [workgroup_name |-> PyStr(<<"wg-1">>)]}}

\* the required options of a cluster and of a workgroup connector
OnCluster ==
    [region |-> PyStr(<<"us-east-1">>), database |-> PyStr(<<"dev">>),
     cluster_identifier |-> PyStr(<<"cluster-1">>),
     max_poll_attempts |-> PyStr(<<"1">>)]

OnWorkgroup ==
    [region |-> PyStr(<<"us-east-1">>), database |-> PyStr(<<"dev">>),
     workgroup_name |-> PyStr(<<"wg-1">>),
     max_poll_attempts |-> PyStr(<<"1">>), poll_interval |-> PyStr(<<"5">>)]

\* the schema_filter options: empty, blank entries only, two entries with a
\* blank after the comma, a system schema among the entries
SchemaFilters ==
    {<<>>, <<" ", ",", " ">>, <<"public", ",", " ", "sales">>, <<"pg_catalog", ",", "public">>}

\* the option maps the connector is constructed from
OptionSets ==
    TargetOptions
    \cup {OnCluster @@ [db_user |-> PyStr(<<"awsuser">>)],
          OnWorkgroup @@ [db_user |-> PyStr(<<"awsuser">>)],
          OnCluster @@ [secret_arn |-> PyStr(<<"arn:aws:secretsmanager:s">>),
                        access_key_id |-> PyStr(<<"AKIA">>),
                        secret_access_key |-> PyStr(<<"secret">>),
                        session_token |-> PyStr(<<"token">>)],
          OnWorkgroup @@ [access_key_id |-> PyStr(<<"AKIA">>)],
          [max_poll_attempts |-> PyStr(<<"a", "b", "c">>)] @@ OnCluster}
    \cup {OnCluster @@ [schema_filter |-> PyStr(f)] : f \in SchemaFilters}

\* the offsets the host pipeline hands to read_table
StartOffsets == {EmptyDict, [cursor |-> PyInt(1)]}

\* the start_offset and table_options arguments of read_table
ReadInputs ==
    {[start_offset |-> o, table_options |-> EmptyDict] : o \in StartOffsets}
    \cup {[start_offset |-> o, table_options |-> [limit |-> PyStr(<<" ", "0", "1">>)]] :
             o \in StartOffsets}
    \cup {[start_offset |-> EmptyDict,
           table_options |-> [where_clause |-> PyStr(<<"id = 1">>),
                              limit |-> PyStr(<<"1", ".", "5">>)]],
          [start_offset |-> [cursor |-> PyInt(1)],
           table_options |-> [where_clause |-> PyStr(<<>>), limit |-> PyStr(<<"0">>)]],
          [start_offset |-> EmptyDict,
           table_options |-> [where_clause |-> PyStr(<<"id = 1">>),
                              limit |-> PyStr(<<"2">>)]],
          [start_offset |-> EmptyDict,
           table_options |-> [where_clause |-> PyStr(<<"id = 1">>),
                              limit |-> PyStr(<<>>)]]}

\* the number the warehouse reads after " LIMIT ", MaxRows when the
\* statement has no such suffix or asks for more rows than the table holds
RowLimit(text) ==
    IF \E i \in 1..(Len(text) - 1), k \in 0..MaxRows :
          text[i] = " LIMIT " /\ text[i + 1] = ToString(k)
    THEN CHOOSE k \in 0..MaxRows :
            \E i \in 1..(Len(text) - 1) : text[i] = " LIMIT " /\ text[i + 1] = ToString(k)
    ELSE MaxRows

\* the most rows a scan can return: the table holds MaxRows rows, at most one
\* of which passes a WHERE condition
MatchingRows(text) ==
    IF \E i \in 1..Len(text) : text[i] = " WHERE "
    THEN Min(1, RowLimit(text))
    ELSE RowLimit(text)

\* the result sets the warehouse may produce for a statement, already paged
RemoteResults(statement) ==
    CASE statement.kind = "catalog" ->
           UNION {{[pages |-> Chunk(CatalogResult(statement, n), k),
                    columns |-> <<[name |-> "table_schema"], [name |-> "table_name"]>>] :
                     k \in CatalogPageRows} : n \in CatalogSizes}
      [] statement.kind = "columns" ->
           UNION {{[pages |-> pg, columns |-> <<>>] :
                     pg \in Pagings([i \in 1..c |-> ColumnRow(i)], 2)} : c \in 0..MaxColumns}
      [] statement.kind = "keys" ->
           {[pages |-> <<[i \in 1..c |-> KeyRow(i)]>>, columns |-> <<>>] : c \in 0..MaxKeys}
      [] OTHER ->
           UNION {{[pages |-> pg, columns |-> ScanColumns] :
                     pg \in Pagings([i \in 1..m |-> ScanRow(i)], MaxPages)} :
                  m \in 0..MatchingRows(statement.text)}

NoResult == [pages |-> <<>>, columns |-> <<>>]

\* the result a statement has when the service answers a describe call
ResultsAt(statement, response) ==
    IF response # [ClientError |-> TRUE] /\ response.Status = "FINISHED"
    THEN RemoteResults(statement)
    ELSE {NoResult}

\* describe_statement: any status, FAILED with or without an Error text, or
\* a remote error
DescribeResponses ==
    {[Status |-> st] : st \in NonTerminal \cup {"FINISHED", "FAILED", "ABORTED"}}
    \cup {[Status |-> "FAILED", Error |-> <<"disk full">>]}
    \cup {ClientError}

\* the cursor the service hands out with page i of statement h
Cursor(h, i) == [h |-> h, page |-> i]

\* the page of statement st (handle h) a request asks for, 0 when the
\* statement has no result or the cursor does not belong to it
RequestedPage(st, h, params) ==
    IF "NextToken" \notin DOMAIN params
    THEN (IF st.pages = <<>> THEN 0 ELSE 1)
    ELSE IF params.NextToken.h = h /\ params.NextToken.page \in 1..Len(st.pages)
         THEN params.NextToken.page
         ELSE 0

\* get_statement_result: the requested page, or a remote error
ResultResponses(st, h, params) ==
    LET i == RequestedPage(st, h, params) IN
    {ClientError} \cup
    (IF i = 0 THEN {}
     ELSE IF i < Len(st.pages)
          THEN {[Records |-> st.pages[i], ColumnMetadata |-> st.columns,
                 NextToken |-> Cursor(h, i + 1)]}
          ELSE {[Records |-> st.pages[i], ColumnMetadata |-> st.columns]})

(* ------------------------------------------------------- construction    *)
\* _parse_schema_filter, lines 120-124: the entries between the "," atoms of
\* the option, stripped, without the empty ones; None for a blank option
RECURSIVE Split(_, _)
Split(s, piece) ==
    IF s = <<>> THEN <<piece>>
    ELSE IF Head(s) = "," THEN <<piece>> \o Split(Tail(s), <<>>)
    ELSE Split(Tail(s), Append(piece, Head(s)))

RECURSIVE StrippedEntries(_)
StrippedEntries(pieces) ==
    IF pieces = <<>> THEN <<>>
    ELSE (IF Strip(Head(pieces)) # <<>> THEN <<Strip(Head(pieces))>> ELSE <<>>)
         \o StrippedEntries(Tail(pieces))

_parse_schema_filter(schema_filter) ==
    IF ~Truthy(schema_filter) \/ Strip(schema_filter.s) = <<>> THEN None
    ELSE [py |-> "list", items |-> StrippedEntries(Split(schema_filter.s, <<>>))]

\* lines 89-99: the keyword arguments kept for boto3.client
ClientKwargs(options) ==
    LET access_key_id == Get(options, "access_key_id", None)
        secret_access_key == Get(options, "secret_access_key", None)
        session_token == Get(options, "session_token", None)
        region == [k \in {"region_name"} |-> Get(options, "region", None)]
        keys == [k \in {"aws_access_key_id", "aws_secret_access_key"} |->
                    IF k = "aws_access_key_id" THEN access_key_id ELSE secret_access_key]
        token == [k \in {"aws_session_token"} |-> session_token]
    IN IF Truthy(access_key_id) /\ Truthy(secret_access_key)
       THEN (IF Truthy(session_token) THEN region @@ keys @@ token ELSE region @@ keys)
       ELSE region

\* the text of the ValueError int() raises
InvalidLiteral == <<"invalid literal for int()">>

\* faulty variant: a second target is accepted and the cluster wins
BothTargets_Accepted(cluster_identifier, workgroup_name) == FALSE

\* lines 73-76
BothTargets(cluster_identifier, workgroup_name) ==
    Truthy(cluster_identifier) /\ Truthy(workgroup_name)

\* LakeflowConnect.__init__, lines 54-99: the instance, or the ValueError
__init__(options) ==
    LET region == Get(options, "region", None)
        database == Get(options, "database", None)
        cluster_identifier == Get(options, "cluster_identifier", None)
        workgroup_name == Get(options, "workgroup_name", None)
        poll_interval == int(Get(options, "poll_interval", PyStr(<<"2">>)).s)
        max_attempts == int(Get(options, "max_poll_attempts",
                                PyStr(<<"3", "0", "0">>)).s)
    IN IF ~Truthy(region)
       THEN Raise("ValueError", <<"Redshift connector requires 'region' in options">>, None)
       ELSE IF ~Truthy(database)
       THEN Raise("ValueError", <<"Redshift connector requires 'database' in options">>, None)
       ELSE IF ~Truthy(cluster_identifier) /\ ~Truthy(workgroup_name)
       THEN Raise("ValueError",
                  <<"Redshift connector requires either 'cluster_identifier' or 'workgroup_name'">>,
                  None)
       ELSE IF BothTargets(cluster_identifier, workgroup_name)
       THEN Raise("ValueError",
                  <<"Redshift connector cannot specify both 'cluster_identifier' and 'workgroup_name'">>,
                  None)
       ELSE IF poll_interval = ValueError \/ max_attempts = ValueError
       THEN Raise("ValueError", InvalidLiteral, None)
       ELSE Return([options |-> options,
                    region |-> region,
                    database |-> database,
                    cluster_identifier |-> cluster_identifier,
                    workgroup_name |-> workgroup_name,
                    db_user |-> Get(options, "db_user", None),
                    secret_arn |-> Get(options, "secret_arn", None),
                    schema_filter |->
                        _parse_schema_filter(Get(options, "schema_filter", PyStr(<<>>))),
                    poll_interval |-> poll_interval.i,
                    max_poll_attempts |-> max_attempts.i,
                    _client |-> None,
                    _client_kwargs |-> ClientKwargs(options)])

\* the options of a provisioned cluster with a database user
ClusterOptions(n) ==
    [region |-> PyStr(<<"us-east-1">>),
     database |-> PyStr(<<"dev">>),
     cluster_identifier |-> PyStr(<<"cluster-1">>),
     db_user |-> PyStr(<<"awsuser">>),
     max_poll_attempts |-> PyStr(<<ToString(n)>>)]

(* ------------------------------------------------------- state           *)
VARIABLES
    self,               \* attributes of the connector instance serving the calls
    pickled,            \* the last state __getstate__ returned
    boto3,              \* the keyword arguments of every boto3.client call
    requests,           \* every execute_statement request, with the client used
    remote,             \* statements the service has accepted, by handle
    call,               \* the host-pipeline call in progress
    pc,                 \* where the call stands
    sql,                \* the statement being submitted or awaited
    statement_id,       \* handle of the current statement
    attempt,            \* loop index of _wait_for_statement
    polls,              \* responses received by the current _wait_for_statement
    sleeps,             \* time.sleep calls of the current _wait_for_statement
    wait_result,        \* what the last _wait_for_statement returned or raised
    records,            \* _get_statement_results: records
    next_token,         \* _get_statement_results: next_token
    available_tables,   \* result of list_tables inside the call
    column_names,       \* read_table: column_names
    outcome,            \* what the call returned or raised
    gen,                \* frame of record_generator
    yielded,            \* records the consumer has received
    others              \* the readers that are not running: their instances and frames

vars == <<self, pickled, boto3, requests, remote, call, pc, sql, statement_id,
          attempt, polls, sleeps, wait_result, records, next_token, available_tables,
          column_names, outcome, gen, yielded, others>>

config == <<self, pickled>>
clientVars == <<boto3, requests>>

\* self.max_poll_attempts
max_poll_attempts == Get(self, "max_poll_attempts", 0)
waitVars == <<attempt, polls, sleeps, wait_result>>
pageVars == <<records, next_token>>
genVars == <<gen, yielded>>

NoGenerator == [pc |-> "none"]

\* no statement submitted and no call frame
Fresh ==
    /\ pickled = None
    /\ boto3 = <<>>
    /\ requests = <<>>
    /\ remote = <<>>
    /\ sql = CatalogSql(None)
    /\ statement_id = 0
    /\ attempt = 0
    /\ polls = <<>>
    /\ sleeps = 0
    /\ wait_result = NoOutcome
    /\ records = <<>>
    /\ next_token = None
    /\ available_tables = <<>>
    /\ column_names = <<>>
    /\ outcome = NoOutcome
    /\ gen = NoGenerator
    /\ yielded = <<>>
    /\ others = <<>>

\* a connector constructed for a cluster, polling at most n times
Init ==
    /\ \E n \in 0..MaxPollAttempts : self = __init__(ClusterOptions(n)).value
    /\ call = [op |-> "none"]
    /\ pc = "idle"
    /\ Fresh

(* ------------------------------------------------------- host calls      *)
\* list_tables, get_table_schema, read_table_metadata and read_table all
\* start by submitting the catalog statement of list_tables
Call(op, table_name, start_offset, table_options) ==
    /\ pc = "idle"
    /\ Len(requests) < MaxRequests
    /\ call' = [op |-> op, table_name |-> table_name,
                start_offset |-> start_offset, table_options |-> table_options]
    /\ sql' = CatalogSql(self.schema_filter)
    /\ pc' = "execute"
    /\ UNCHANGED <<config, others, clientVars, remote, statement_id, waitVars, pageVars,
                   available_tables, column_names, outcome, genVars>>

(* ------------------------------------------------------- Statement Executor *)
\* a statement the service has accepted: no result before it finishes
NewStatement(statement) ==
    [sql |-> statement, pages |-> <<>>, columns |-> <<>>,
     describes |-> 0, status |-> "NONE", results |-> <<>>]

\* what the service knows of a statement once it answered a describe call;
\* a statement reported FINISHED has its result
Described(st, response, result) ==
    IF response # ClientError /\ response.Status = "FINISHED"
    THEN [st EXCEPT !.describes = @ + 1, !.status = "FINISHED",
                    !.pages = result.pages, !.columns = result.columns]
    ELSE [st EXCEPT !.describes = @ + 1, !.status = Get(response, "Status", "ERROR")]

\* faulty variant: the database user is sent to either target
ExecuteParams_DbUserAlways(instance, statement) ==
    [Database |-> instance.database, Sql |-> statement]
    @@ (IF Truthy(instance.cluster_identifier)
        THEN [ClusterIdentifier |-> instance.cluster_identifier]
        ELSE [WorkgroupName |-> instance.workgroup_name])
    @@ (IF Truthy(instance.db_user) THEN [DbUser |-> instance.db_user] ELSE EmptyDict)
    @@ (IF Truthy(instance.secret_arn) THEN [SecretArn |-> instance.secret_arn]
        ELSE EmptyDict)

\* _execute_sql, lines 136-151: the request parameters
ExecuteParams(instance, statement) ==
    LET base == [Database |-> instance.database, Sql |-> statement]
        target == IF Truthy(instance.cluster_identifier)
                  THEN (IF Truthy(instance.db_user)
                        THEN [ClusterIdentifier |-> instance.cluster_identifier,
                              DbUser |-> instance.db_user]
                        ELSE [ClusterIdentifier |-> instance.cluster_identifier])
                  ELSE [WorkgroupName |-> instance.workgroup_name]
        secret == IF Truthy(instance.secret_arn)
                  THEN [SecretArn |-> instance.secret_arn]
                  ELSE EmptyDict
    IN base @@ target @@ secret

\* the client property, line 104: if self._client is None
NeedsClient(instance) == instance._client = None

\* the client property, lines 101-106: the instance after self.client was read
WithClient(instance) ==
    IF NeedsClient(instance)
    THEN [instance EXCEPT !._client = [client |-> Len(boto3) + 1]]
    ELSE instance

\* the boto3.client calls after self.client was read
ClientsBuilt(instance) ==
    IF NeedsClient(instance) THEN Append(boto3, instance._client_kwargs) ELSE boto3

\* the execute_statement request of _execute_sql, sent through self.client
SendExecute ==
    /\ self' = WithClient(self)
    /\ boto3' = ClientsBuilt(self)
    /\ requests' = Append(requests, [client |-> WithClient(self)._client,
                                      params |-> ExecuteParams(self, sql)])
    /\ UNCHANGED <<pickled, others>>

\* _execute_sql: the service accepts the statement and returns its handle
ExecuteAccepted ==
    /\ pc = "execute"
    /\ SendExecute
    /\ remote' = Append(remote, NewStatement(sql))
    /\ statement_id' = Len(remote) + 1
    /\ pc' = "wait"
    /\ attempt' = 0
    /\ polls' = <<>>
    /\ sleeps' = 0
    /\ wait_result' = NoOutcome
    /\ UNCHANGED <<call, sql, pageVars, available_tables, column_names,
                   outcome, genVars>>

\* _execute_sql: the service rejects the statement
ExecuteRejected ==
    /\ pc = "execute"
    /\ SendExecute
    /\ outcome' = Raise("RuntimeError", "Failed to execute SQL statement", ClientError)
    /\ pc' = "done"
    /\ UNCHANGED <<remote, call, sql, statement_id, waitVars, pageVars,
                   available_tables, column_names, genVars>>

(* ------------------------------------------------------- Poll Loop       *)
\* faulty variant: one iteration too many
LoopRuns_OffByOne(i, limit) == i <= limit

\* for attempt in range(self.max_poll_attempts)
LoopRuns(i, limit) == i < limit

\* faulty variant: a FINISHED status is polled again
PollBranch_FinishedIgnored(response) ==
    IF response = ClientError THEN "error"
    ELSE IF response.Status = "FAILED" THEN "failed"
    ELSE IF response.Status = "ABORTED" THEN "aborted"
    ELSE "sleep"

\* faulty variant: a describe error is retried after the interval
PollBranch_ErrorRetried(response) ==
    IF response = ClientError THEN "sleep"
    ELSE IF response.Status = "FINISHED" THEN "return"
    ELSE IF response.Status = "FAILED" THEN "failed"
    ELSE IF response.Status = "ABORTED" THEN "aborted"
    ELSE "sleep"

\* faulty variant: a FAILED status is taken for a finished statement
PollBranch_FailedAccepted(response) ==
    IF response = ClientError THEN "error"
    ELSE IF response.Status \in {"FINISHED", "FAILED"} THEN "return"
    ELSE IF response.Status = "ABORTED" THEN "aborted"
    ELSE "sleep"

\* the branch _wait_for_statement takes on one describe_statement response
PollBranch(response) ==
    IF response = ClientError THEN "error"
    ELSE IF response.Status = "FINISHED" THEN "return"
    ELSE IF response.Status = "FAILED" THEN "failed"
    ELSE IF response.Status = "ABORTED" THEN "aborted"
    ELSE "sleep"

\* faulty variant: the remote error message is not carried
PollResult_MessageDropped(response) ==
    CASE PollBranch(response) = "return" -> Return(response)
      [] PollBranch(response) = "failed" ->
           Raise("RuntimeError", "SQL statement failed", <<"Unknown error">>)
      [] PollBranch(response) = "aborted" ->
           Raise("RuntimeError", "SQL statement was aborted", <<>>)
      [] OTHER ->
           Raise("RuntimeError", "Failed to describe statement", ClientError)

\* what _wait_for_statement raises or returns on a response that ends it
PollResult(response) ==
    CASE PollBranch(response) = "return" -> Return(response)
      [] PollBranch(response) = "failed" ->
           Raise("RuntimeError", "SQL statement failed",
                 Get(response, "Error", <<"Unknown error">>))
      [] PollBranch(response) = "aborted" ->
           Raise("RuntimeError", "SQL statement was aborted", <<>>)
      [] OTHER ->
           Raise("RuntimeError", "Failed to describe statement", ClientError)

\* one iteration of the loop of _wait_for_statement, the service answering
\* with response for a statement whose result is result
Describe(response, result) ==
    /\ pc = "wait"
    /\ LoopRuns(attempt, max_poll_attempts)
    /\ polls' = Append(polls, response)
    /\ remote' = [remote EXCEPT ![statement_id] = Described(@, response, result)]
    /\ IF PollBranch(response) = "sleep"
       THEN /\ sleeps' = sleeps + 1
            /\ attempt' = attempt + 1
            /\ UNCHANGED <<pc, wait_result, outcome>>
       ELSE /\ wait_result' = PollResult(response)
            /\ UNCHANGED <<sleeps, attempt>>
            /\ IF PollBranch(response) = "return"
               THEN /\ pc' = "waited"
                    /\ UNCHANGED outcome
               ELSE /\ pc' = "done"
                    /\ outcome' = PollResult(response)
    /\ UNCHANGED <<config, others, clientVars, call, sql, statement_id, pageVars, available_tables,
                   column_names, genVars>>

\* one iteration of the loop of _wait_for_statement
DescribeStatement ==
    /\ pc = "wait"
    /\ \E response \in DescribeResponses :
       \E result \in ResultsAt(sql, response) : Describe(response, result)

\* where the caller of _wait_for_statement goes when it returns
AfterWait == IF sql.kind = "scan" THEN "metadata" ELSE "fetch"

\* _wait_for_statement has returned: its frame is gone and its caller goes on,
\* _execute_and_fetch into _get_statement_results, read_table to the metadata
WaitReturns ==
    /\ pc = "waited"
    /\ pc' = AfterWait
    /\ attempt' = 0
    /\ polls' = <<>>
    /\ sleeps' = 0
    /\ wait_result' = NoOutcome
    /\ records' = <<>>
    /\ next_token' = None
    /\ UNCHANGED <<config, others, clientVars, remote, call, sql, statement_id, available_tables,
                   column_names, outcome, genVars>>

\* the loop of _wait_for_statement ends without a terminal status
WaitTimeout ==
    /\ pc = "wait"
    /\ ~LoopRuns(attempt, max_poll_attempts)
    /\ wait_result' = Raise("RuntimeError", "Statement timed out", max_poll_attempts)
    /\ outcome' = wait_result'
    /\ pc' = "done"
    /\ UNCHANGED <<config, others, clientVars, remote, call, sql, statement_id, attempt, polls, sleeps,
                   pageVars, available_tables, column_names, genVars>>

(* ------------------------------------------------------- Result Paginator *)
\* params = {"Id": statement_id}; if next_token: params["NextToken"] = next_token
RequestParams(id, token) ==
    IF token # None THEN [Id |-> id, NextToken |-> token] ELSE [Id |-> id]

\* faulty variant: the loop stops after its first page
LastPage_Always(token) == TRUE

\* if not next_token: break
LastPage(token) == token = None

\* the entry the service keeps of one get_statement_result request
Logged(params, response) ==
    [token |-> Get(params, "NextToken", None),
     next |-> IF response = ClientError THEN ClientError
              ELSE Get(response, "NextToken", None)]

(* ------------------------------------------------------- Catalog Service *)
\* the statement each call submits once the table name passed validation
SecondSql(op, table_name, start_offset, table_options) ==
    LET parsed == _parse_table_name(table_name) IN
    CASE op = "get_table_schema" -> ColumnsSql(parsed[1], parsed[2])
      [] op = "read_table_metadata" -> KeysSql(parsed[1], parsed[2])
      [] OTHER -> ScanSql(parsed[1], parsed[2], start_offset, table_options)

\* what a call does with the list list_tables returned
AfterListTables(tables) ==
    IF call.op = "list_tables"
    THEN [pc |-> "done", outcome |-> Return(tables), sql |-> sql]
    ELSE IF NotListed(call.table_name, tables)
    THEN [pc |-> "done",
          outcome |-> Raise("ValueError", "not supported",
                            NotSupportedMessage(call.table_name, tables)),
          sql |-> sql]
    ELSE [pc |-> "execute", outcome |-> NoOutcome,
          sql |-> SecondSql(call.op, call.table_name, call.start_offset,
                           call.table_options)]

\* get_table_schema, lines 446-470
AfterColumns(recs) ==
    IF recs = <<>>
    THEN [pc |-> "done",
          outcome |-> Raise("ValueError", "not found or has no columns", call.table_name),
          sql |-> sql]
    ELSE [pc |-> "done", outcome |-> Return(StructType(recs)), sql |-> sql]

\* read_table_metadata, lines 517-530
AfterKeys(recs) ==
    [pc |-> "done",
     outcome |-> Return([primary_keys |-> PrimaryKeys(recs), ingestion_type |-> "snapshot"]),
     sql |-> sql]

\* what the caller of _execute_and_fetch does with the records
AfterFetch(recs) ==
    CASE sql.kind = "catalog" -> AfterListTables(ListedTables(recs))
      [] sql.kind = "columns" -> AfterColumns(recs)
      [] OTHER -> AfterKeys(recs)

\* one iteration of the loop of _get_statement_results; its last iteration
\* returns the records to the caller, which carries on to its next remote call
GetStatementResults ==
    /\ pc = "fetch"
    /\ LET params == RequestParams(statement_id, next_token) IN
       \E response \in ResultResponses(remote[statement_id], statement_id, params) :
          /\ remote' = [remote EXCEPT ![statement_id].results =
                                         Append(@, Logged(params, response))]
          /\ IF response = ClientError
             THEN /\ outcome' = Raise("RuntimeError", "Failed to get statement results",
                                      ClientError)
                  /\ pc' = "done"
                  /\ UNCHANGED <<pageVars, sql, available_tables>>
             ELSE LET recs == records \o Get(response, "Records", <<>>)
                      token == Get(response, "NextToken", None)
                  IN /\ records' = recs
                     /\ next_token' = token
                     /\ IF LastPage(token)
                        THEN /\ pc' = AfterFetch(recs).pc
                             /\ outcome' = AfterFetch(recs).outcome
                             /\ sql' = AfterFetch(recs).sql
                             /\ available_tables' =
                                   IF sql.kind = "catalog" THEN ListedTables(recs)
                                   ELSE available_tables
                        ELSE UNCHANGED <<pc, outcome, sql, available_tables>>
    /\ UNCHANGED <<config, others, clientVars, call, statement_id, waitVars, column_names, genVars>>

(* ------------------------------------------------------- Table Reader    *)
\* faulty variant: the iterator starts from the page the metadata request
\* brought and does not ask for it again
GetColumnMetadata_PageKept ==
    /\ pc = "metadata"
    /\ LET params == [Id |-> statement_id] IN
       \E response \in ResultResponses(remote[statement_id], statement_id, params) :
          /\ remote' = [remote EXCEPT ![statement_id].results =
                                         Append(@, Logged(params, response))]
          /\ IF response = ClientError
             THEN /\ outcome' = Raise("RuntimeError", "Failed to get column metadata",
                                      ClientError)
                  /\ UNCHANGED <<column_names, gen>>
             ELSE LET column_metadata == Get(response, "ColumnMetadata", <<>>) IN
                  /\ column_names' = [i \in 1..Len(column_metadata) |->
                                         column_metadata[i].name]
                  /\ outcome' = Return([iterator |-> "record_generator", offset |-> <<>>])
                  /\ gen' = [pc |-> "created",
                             next_token |-> Get(response, "NextToken", None),
                             records |-> Get(response, "Records", <<>>),
                             fetched |-> 1]
    /\ pc' = "done"
    /\ UNCHANGED <<config, others, clientVars, call, sql, statement_id, waitVars, pageVars,
                   available_tables, yielded>>

\* read_table, lines 587-592 and 626: the cursor-less request for the column
\* metadata, then the return of the generator and the empty offset
GetColumnMetadata ==
    /\ pc = "metadata"
    /\ LET params == [Id |-> statement_id] IN
       \E response \in ResultResponses(remote[statement_id], statement_id, params) :
          /\ remote' = [remote EXCEPT ![statement_id].results =
                                         Append(@, Logged(params, response))]
          /\ IF response = ClientError
             THEN /\ outcome' = Raise("RuntimeError", "Failed to get column metadata",
                                      ClientError)
                  /\ UNCHANGED <<column_names, gen>>
             ELSE LET column_metadata == Get(response, "ColumnMetadata", <<>>) IN
                  /\ column_names' = [i \in 1..Len(column_metadata) |->
                                         column_metadata[i].name]
                  /\ outcome' = Return([iterator |-> "record_generator", offset |-> <<>>])
                  /\ gen' = [pc |-> "created", next_token |-> None,
                             records |-> <<>>, fetched |-> 0]
    /\ pc' = "done"
    /\ UNCHANGED <<config, others, clientVars, call, sql, statement_id, waitVars, pageVars,
                   available_tables, yielded>>

\* faulty variant: a failed page request ends the iterator normally
GeneratorRaise_Swallowed(frame) == [frame EXCEPT !.pc = "exhausted"]

\* record_generator, lines 605-606: the RuntimeError leaves the generator
GeneratorRaise(frame) == [frame EXCEPT !.pc = "raised"]

\* the consumer asks the iterator for its next record
ConsumerNext ==
    /\ gen.pc \in {"created", "suspended"}
    /\ gen' = [gen EXCEPT !.pc = "running"]
    /\ UNCHANGED <<config, others, clientVars, remote, call, pc, sql, statement_id, waitVars, pageVars,
                   available_tables, column_names, outcome, yielded>>

\* record_generator: the top of its while loop, one page request
GeneratorFetch ==
    /\ gen.pc = "running"
    /\ gen.records = <<>>
    /\ gen.fetched = 0 \/ ~LastPage(gen.next_token)
    /\ LET params == RequestParams(statement_id, gen.next_token) IN
       \E response \in ResultResponses(remote[statement_id], statement_id, params) :
          /\ remote' = [remote EXCEPT ![statement_id].results =
                                         Append(@, Logged(params, response))]
          /\ IF response = ClientError
             THEN gen' = GeneratorRaise(gen)
             ELSE gen' = [gen EXCEPT !.records = Get(response, "Records", <<>>),
                                     !.next_token = Get(response, "NextToken", None),
                                     !.fetched = @ + 1]
    /\ UNCHANGED <<config, others, clientVars, call, pc, sql, statement_id, waitVars, pageVars,
                   available_tables, column_names, outcome, yielded>>

\* record_generator: yield record_dict
GeneratorYield ==
    /\ gen.pc = "running"
    /\ gen.records # <<>>
    /\ yielded' = Append(yielded, RecordDict(Head(gen.records), column_names))
    /\ gen' = [gen EXCEPT !.records = Tail(@), !.pc = "suspended"]
    /\ UNCHANGED <<config, others, clientVars, remote, call, pc, sql, statement_id, waitVars, pageVars,
                   available_tables, column_names, outcome>>

\* record_generator: break out of the while loop, the iterator is exhausted
GeneratorReturn ==
    /\ gen.pc = "running"
    /\ gen.records = <<>>
    /\ gen.fetched > 0
    /\ LastPage(gen.next_token)
    /\ gen' = [gen EXCEPT !.pc = "exhausted"]
    /\ UNCHANGED <<config, others, clientVars, remote, call, pc, sql, statement_id, waitVars, pageVars,
                   available_tables, column_names, outcome, yielded>>

(* ------------------------------------------------------- specification   *)
Next ==
    \/ \E op \in Operations, table_name \in TableNames :
          Call(op, table_name, EmptyDict, EmptyDict)
    \/ ExecuteAccepted
    \/ ExecuteRejected
    \/ DescribeStatement
    \/ WaitTimeout
    \/ WaitReturns
    \/ GetStatementResults
    \/ GetColumnMetadata
    \/ ConsumerNext
    \/ GeneratorFetch
    \/ GeneratorYield
    \/ GeneratorReturn

Spec == Init /\ [][Next]_vars

\* read_table calls with every modelled start_offset and table_options, on a
\* connector constructed with max_poll_attempts = 1
ReaderInit ==
    /\ self = __init__(ClusterOptions(1)).value
    /\ call = [op |-> "none"]
    /\ pc = "idle"
    /\ Fresh

ReaderNext ==
    \/ \E table_name \in TableNames, input \in ReadInputs :
          Call("read_table", table_name, input.start_offset, input.table_options)
    \/ ExecuteAccepted
    \/ ExecuteRejected
    \/ DescribeStatement
    \/ WaitTimeout
    \/ WaitReturns
    \/ GetStatementResults
    \/ GetColumnMetadata
    \/ ConsumerNext
    \/ GeneratorFetch
    \/ GeneratorYield
    \/ GeneratorReturn

ReaderSpec == ReaderInit /\ [][ReaderNext]_vars

\* _extract_value applied to one field of a result record
ExtractValue ==
    /\ pc = "idle"
    /\ call.op = "_extract_value"
    /\ outcome' = Return(_extract_value(call.field_data))
    /\ pc' = "done"
    /\ UNCHANGED <<config, others, clientVars, remote, call, sql, statement_id, waitVars, pageVars,
                   available_tables, column_names, genVars>>

DecoderInit ==
    /\ self = __init__(ClusterOptions(MaxPollAttempts)).value
    /\ call \in {[op |-> "_extract_value", field_data |-> f] : f \in FieldDatas}
    /\ pc = "idle"
    /\ Fresh

DecoderNext == ExtractValue

DecoderSpec == DecoderInit /\ [][DecoderNext]_vars

\* _map_redshift_type_to_spark applied to one column descriptor
MapType ==
    /\ pc = "idle"
    /\ call.op = "_map_redshift_type_to_spark"
    /\ outcome' = Return(_map_redshift_type_to_spark(call.redshift_type, call.precision,
                                                      call.scale, call.char_max_length))
    /\ pc' = "done"
    /\ UNCHANGED <<config, others, clientVars, remote, call, sql, statement_id, waitVars, pageVars,
                   available_tables, column_names, genVars>>

MapperInit ==
    /\ self = __init__(ClusterOptions(MaxPollAttempts)).value
    /\ call \in MapperInputs
    /\ pc = "idle"
    /\ Fresh

MapperNext == MapType

MapperSpec == MapperInit /\ [][MapperNext]_vars

(* ------------------------------------------------------- connector life cycle *)
\* no instance: the constructor has not returned one
NoInstance == EmptyDict

\* LakeflowConnect(options): the instance, or the error of __init__
Construct ==
    /\ pc = "new"
    /\ call.op = "__init__"
    /\ LET result == __init__(call.options) IN
       IF result.kind = "ok"
       THEN /\ self' = result.value
            /\ pc' = "idle"
            /\ UNCHANGED outcome
       ELSE /\ outcome' = result
            /\ pc' = "done"
            /\ UNCHANGED self
    /\ UNCHANGED <<pickled, others, clientVars, remote, call, sql, statement_id, waitVars,
                   pageVars, available_tables, column_names, genVars>>

\* faulty variant: the live client is serialized with the instance
__getstate___WithClient(instance) == instance

\* lines 108-113: a copy of __dict__ with _client set to None
__getstate__(instance) == [instance EXCEPT !._client = None]

\* lines 115-118: __dict__.update(state) on an instance without attributes
__setstate__(state) == NoInstance @@ state

\* pickle.dumps(connector) between two calls
GetState ==
    /\ pc = "idle"
    /\ pickled' = __getstate__(self)
    /\ UNCHANGED <<self, others, clientVars, remote, call, pc, sql, statement_id, waitVars,
                   pageVars, available_tables, column_names, outcome, genVars>>

\* pickle.loads: the restored instance takes over from the serialized one
SetState ==
    /\ pc = "idle"
    /\ pickled # None
    /\ self' = __setstate__(pickled)
    /\ UNCHANGED <<pickled, others, clientVars, remote, call, pc, sql, statement_id, waitVars,
                   pageVars, available_tables, column_names, outcome, genVars>>

\* the call returned or raised: the instance is ready for its next call and
\* the service has dropped the statements of the call
Finish ==
    /\ pc = "done"
    /\ self # NoInstance
    /\ pc' = "idle"
    /\ call' = [op |-> "none"]
    /\ remote' = <<>>
    /\ sql' = CatalogSql(None)
    /\ statement_id' = 0
    /\ attempt' = 0
    /\ polls' = <<>>
    /\ sleeps' = 0
    /\ wait_result' = NoOutcome
    /\ records' = <<>>
    /\ next_token' = None
    /\ available_tables' = <<>>
    /\ column_names' = <<>>
    /\ outcome' = NoOutcome
    /\ UNCHANGED <<config, others, clientVars, genVars>>

ConnectorInit ==
    /\ self = NoInstance
    /\ call \in {[op |-> "__init__", options |-> options] : options \in OptionSets}
    /\ pc = "new"
    /\ Fresh

ConnectorNext ==
    \/ Construct
    \/ GetState
    \/ SetState
    \/ \E op \in {"list_tables", "read_table_metadata"} :
          Call(op, <<"public", ".", "users">>, EmptyDict, EmptyDict)
    \/ ExecuteAccepted
    \/ ExecuteRejected
    \/ DescribeStatement
    \/ WaitTimeout
    \/ WaitReturns
    \/ GetStatementResults
    \/ Finish

ConnectorSpec == ConnectorInit /\ [][ConnectorNext]_vars

\* the scheduling of the calling thread: a started poll loop keeps running
FairSpec == Spec /\ WF_vars(DescribeStatement) /\ WF_vars(WaitTimeout)

(* ------------------------------------------------------- properties      *)
Terminal == {"FINISHED", "FAILED", "ABORTED"}

IsStatus(response, st) == response # ClientError /\ response.Status = st

IsNonTerminal(response) == response # ClientError /\ response.Status \notin Terminal

\* the first k-1 responses of the current wait are non-terminal
NonTerminalBefore(k) == \A i \in 1..(k - 1) : IsNonTerminal(polls[i])

\* the k-th response of the current wait is the first FINISHED one
FinishedAt(k) ==
    /\ k \in 1..Len(polls)
    /\ IsStatus(polls[k], "FINISHED")
    /\ NonTerminalBefore(k)

\* C1: when the first FINISHED status arrives at poll k <= max_poll_attempts
\* after non-terminal statuses only, _wait_for_statement returns that k-th
\* response, having made exactly k describe_statement calls, and polls no more.
C1_Returned ==
    \A k \in 1..max_poll_attempts :
        FinishedAt(k) =>
            /\ wait_result = Return(polls[k])
            /\ Len(polls) = k
            /\ remote[statement_id].describes = k
            /\ pc = "waited"

\* a handle reported FINISHED is not described again
C1_NoPollAfter ==
    \A h \in 1..Len(remote) :
        remote[h].status = "FINISHED" => remote'[h].describes = remote[h].describes

C1_PollSuccess == [](C1_Returned) /\ [][C1_NoPollAfter]_vars

\* [SUBMITTED, STARTED, FINISHED]: returned after exactly three polls
C1_Witness ==
    /\ Len(polls) = 3
    /\ IsStatus(polls[1], "SUBMITTED")
    /\ IsStatus(polls[2], "STARTED")
    /\ FinishedAt(3)
    /\ wait_result.kind = "ok"
    /\ remote[statement_id].describes = 3

TimedOut(result) == result.kind = "error" /\ result.text = "Statement timed out"

\* C2 (safety part): no handle is described more than max_poll_attempts
\* times; a wait whose responses are all non-terminal fails with the timeout
\* error after exactly max_poll_attempts calls, and only such a wait does.
C2_Budget ==
    /\ \A h \in 1..Len(remote) : remote[h].describes <= max_poll_attempts
    /\ pc = "wait" => (Len(polls) = attempt /\ NonTerminalBefore(attempt + 1))
    /\ (/\ statement_id > 0
        /\ pc # "wait"
        /\ Len(polls) = max_poll_attempts
        /\ NonTerminalBefore(Len(polls) + 1)) =>
            /\ TimedOut(wait_result)
            /\ TimedOut(outcome)
            /\ remote[statement_id].describes = max_poll_attempts
    /\ TimedOut(wait_result) =>
            /\ Len(polls) = max_poll_attempts
            /\ NonTerminalBefore(Len(polls) + 1)

\* C2: the safety part in every state, and every started wait ends.
C2_PollTimeout == [](C2_Budget) /\ [](pc = "wait" => <>(pc # "wait"))

C2_Witness ==
    /\ max_poll_attempts = MaxPollAttempts
    /\ TimedOut(outcome)
    /\ remote[statement_id].describes = MaxPollAttempts
    /\ sleeps = MaxPollAttempts

\* C3: a FAILED status ends the wait with the statement-failed error carrying
\* the remote message, or "Unknown error" when there is none; an ABORTED
\* status ends it with the aborted error; either is the last describe call for
\* the handle, and no result is requested for it.
C3_TerminalFailure ==
    \A i \in 1..Len(polls) :
        (IsStatus(polls[i], "FAILED") \/ IsStatus(polls[i], "ABORTED")) =>
            /\ i = Len(polls)
            /\ remote[statement_id].describes = i
            /\ remote[statement_id].results = <<>>
            /\ pc = "done"
            /\ outcome = wait_result
            /\ outcome.kind = "error"
            /\ outcome.type = "RuntimeError"
            /\ IsStatus(polls[i], "ABORTED") => outcome.text = "SQL statement was aborted"
            /\ IsStatus(polls[i], "FAILED") =>
                  /\ outcome.text = "SQL statement failed"
                  /\ outcome.detail = IF "Error" \in DOMAIN polls[i]
                                      THEN polls[i].Error
                                      ELSE <<"Unknown error">>

\* a FAILED status carrying a message, after one non-terminal status
C3_Witness ==
    /\ Len(polls) = 2
    /\ IsNonTerminal(polls[1])
    /\ IsStatus(polls[2], "FAILED")
    /\ "Error" \in DOMAIN polls[2]
    /\ outcome.kind = "error"
    /\ outcome.detail = <<"disk full">>

\* C4: a describe_statement call that raises ends the wait at once with the
\* describe error: it is the last call for the handle, no sleep follows it,
\* and the attempts that remain are not used.
C4_NoDescribeRetry ==
    \A i \in 1..Len(polls) :
        polls[i] = ClientError =>
            /\ i = Len(polls)
            /\ remote[statement_id].describes = i
            /\ sleeps = i - 1
            /\ attempt = i - 1
            /\ pc = "done"
            /\ outcome = Raise("RuntimeError", "Failed to describe statement", ClientError)

\* the first poll raises while attempts remain
C4_Witness ==
    /\ Len(polls) = 1
    /\ polls[1] = ClientError
    /\ max_poll_attempts >= 2
    /\ sleeps = 0
    /\ outcome.kind = "error"

RECURSIVE Flatten(_)
Flatten(pages) == IF pages = <<>> THEN <<>> ELSE Head(pages) \o Flatten(Tail(pages))

Last(seq) == seq[Len(seq)]

Range(seq) == {seq[i] : i \in 1..Len(seq)}

IsCursor(token) == token # None /\ token # ClientError

\* index of the first request of the paginating loop in a statement's request
\* log: the scan statement's first request is read_table's metadata request
FirstLoopRequest(h) == IF remote[h].sql.kind = "scan" THEN 2 ELSE 1

\* every request of the loop after its first carries the cursor of the response
\* just before it, and the first carries none
CursorChain(h) ==
    LET log == remote[h].results IN
    \A i \in FirstLoopRequest(h)..Len(log) :
        IF i = FirstLoopRequest(h)
        THEN log[i].token = None
        ELSE IsCursor(log[i - 1].next) /\ log[i].token = log[i - 1].next

\* the records the generator yields for the raw rows
Converted(rows) == [i \in 1..Len(rows) |-> RecordDict(rows[i], column_names)]

\* the eager paginator on the current statement
EagerPaging ==
    LET st == remote[statement_id]
        log == st.results
    IN (st.sql.kind # "scan" /\ log # <<>>) =>
          /\ IsCursor(Last(log).next) =>
                /\ pc = "fetch"
                /\ records = Flatten(SubSeq(st.pages, 1, Len(log)))
          /\ Last(log).next = None =>
                /\ pc # "fetch"
                /\ Len(log) = Len(st.pages)
                /\ records = Flatten(st.pages)

\* the streaming paginator on the scan statement
StreamPaging ==
    LET st == remote[statement_id]
        log == st.results
        all == Converted(Flatten(st.pages))
    IN (st.sql.kind = "scan" /\ Len(log) >= 2) =>
          /\ Len(yielded) <= Len(all)
          /\ yielded = SubSeq(all, 1, Len(yielded))
          /\ IsCursor(Last(log).next) => gen.pc \in {"running", "suspended"}
          /\ gen.pc = "exhausted" =>
                /\ Last(log).next = None
                /\ Len(log) = Len(st.pages) + 1
                /\ yielded = all

\* C5: both paginators send no cursor first and then exactly the cursor of
\* the preceding response, go on while a response carries a cursor, stop at
\* the first response without one, and then have produced the records of all
\* pages in page order.
C5_Pagination ==
    /\ \A h \in 1..Len(remote) : CursorChain(h)
    /\ statement_id > 0 => (EagerPaging /\ StreamPaging)

\* a catalog of several pages read eagerly, then a three-page scan streamed
\* to exhaustion
C5_Witness ==
    /\ Len(remote) = 2
    /\ Len(remote[1].pages) >= 2
    /\ Len(remote[1].results) = Len(remote[1].pages)
    /\ Len(remote[2].pages) = 3
    /\ gen.pc = "exhausted"
    /\ Len(yielded) = 3

\* C6: a failed page request is the last request for its statement.  In the
\* stream the consumer gets the error after the records of the pages before
\* it and the iterator is never exhausted; the eager paginator raises and its
\* caller returns nothing.
C6_FetchFailure ==
    \A h \in 1..Len(remote) :
        LET st == remote[h]
            log == st.results
        IN /\ \A i \in 1..Len(log) :
                log[i].next = ClientError =>
                   /\ i = Len(log)
                   /\ h = Len(remote)
                   /\ pc = "done"
                   /\ (st.sql.kind # "scan") =>
                         outcome = Raise("RuntimeError", "Failed to get statement results",
                                         ClientError)
                   /\ (st.sql.kind = "scan" /\ i = 1) =>
                         /\ outcome = Raise("RuntimeError", "Failed to get column metadata",
                                            ClientError)
                         /\ gen = NoGenerator
                   /\ (st.sql.kind = "scan" /\ i > 1) =>
                         /\ gen.pc = "raised"
                         /\ yielded = Converted(Flatten(SubSeq(st.pages, 1, i - 2)))
           /\ (st.sql.kind = "scan" /\ gen.pc = "exhausted") =>
                \A i \in 1..Len(log) : log[i].next # ClientError

\* the request for the second page of a scan fails after the first page's
\* record was delivered
C6_Witness ==
    /\ gen.pc = "raised"
    /\ gen.fetched = 1
    /\ Len(yielded) = 1
    /\ Len(remote[statement_id].pages) >= 2
    /\ Last(remote[statement_id].results).next = ClientError

\* C7: the records delivered so far are those of the first rows of the scan,
\* one per row in page and row order; record r has exactly the keys of the
\* column names below min(fields, columns), each with the decoded field; an
\* exhausted iterator has delivered every row.
C7_RecordStream ==
    (statement_id > 0 /\ remote[statement_id].sql.kind = "scan" /\ gen.pc # "none") =>
        LET st == remote[statement_id]
            rows == Flatten(st.pages)
            names == [i \in 1..Len(st.columns) |-> st.columns[i].name]
        IN /\ Len(yielded) <= Len(rows)
           /\ gen.pc = "exhausted" => Len(yielded) = Len(rows)
           /\ \A r \in 1..Len(yielded) :
                LET n == Min(Len(rows[r]), Len(names)) IN
                /\ DOMAIN yielded[r] = {names[i] : i \in 1..n}
                /\ \A i \in 1..n : yielded[r][names[i]] = _extract_value(rows[r][i])

\* three rows over two pages: a full row, a row with an extra field and a row
\* with a missing field
C7_Witness ==
    /\ gen.pc = "exhausted"
    /\ Len(remote[statement_id].pages) = 2
    /\ yielded = <<[id |-> PyInt(1), name |-> PyStr(<<"ann">>)],
                   [id |-> PyInt(2), name |-> None],
                   [id |-> PyInt(3)]>>

\* list_tables has returned inside the call
CatalogListed ==
    /\ Len(remote) >= 1
    /\ remote[1].results # <<>>
    /\ Last(remote[1].results).next = None

ValidatingCall == call.op \in {"get_table_schema", "read_table_metadata", "read_table"}

NotSupported(result) ==
    result.kind = "error" /\ result.type = "ValueError" /\ result.text = "not supported"

\* C8: a name that is not in the list list_tables returned makes
\* get_table_schema, read_table_metadata and read_table fail with the
\* not-supported error, which lists every table when there are at most 10 and
\* the first 10 otherwise; no further statement is submitted.
C8_TableNotFound ==
    (ValidatingCall /\ CatalogListed /\ call.table_name \notin Range(available_tables)) =>
        /\ pc = "done"
        /\ Len(remote) = 1
        /\ NotSupported(outcome)
        /\ outcome.detail.tables =
              IF Len(available_tables) <= 10 THEN available_tables
              ELSE SubSeq(available_tables, 1, 10)

\* eleven listed tables, ten of them in the error
C8_Witness ==
    /\ ValidatingCall
    /\ CatalogListed
    /\ Len(available_tables) = 11
    /\ NotSupported(outcome)
    /\ Len(outcome.detail.tables) = 10
    /\ outcome.detail.tables[1] = <<"public", ".", "users">>

\* the catalog statement was submitted first, polled to FINISHED and read to
\* its last page, and the requested name is in it
CatalogValidated ==
    /\ call.op = "read_table"
    /\ Len(remote) >= 1
    /\ remote[1].sql.kind = "catalog"
    /\ remote[1].status = "FINISHED"
    /\ Len(remote[1].results) = Len(remote[1].pages)
    /\ Last(remote[1].results).next = None
    /\ call.table_name \in Range(ListedTables(Flatten(remote[1].pages)))

\* C9: the SELECT of read_table is submitted, or about to be, only after the
\* catalog statement finished, was read to its last page and listed the name.
C9_ValidateBeforeScan ==
    /\ (pc = "execute" /\ sql.kind = "scan") => CatalogValidated
    /\ \A h \in 1..Len(remote) :
          remote[h].sql.kind = "scan" => (h > 1 /\ CatalogValidated)

\* a scan submitted after a two-page catalog
C9_Witness ==
    /\ Len(remote) = 2
    /\ remote[2].sql.kind = "scan"
    /\ Len(remote[1].pages) >= 2
    /\ CatalogValidated

\* C10: an unqualified name T with public.T in the catalog is not rejected as
\* not supported.
C10_DefaultSchema ==
    (/\ ValidatingCall
     /\ CatalogListed
     /\ FirstDot(call.table_name, 1) = 0
     /\ (<<"public", ".">> \o call.table_name) \in Range(available_tables))
        => ~NotSupported(outcome)

(* ------------------------------------------------------- schema and keys *)
\* the statement of the call's current query finished and the paginator read
\* it to its last page
ReadToEnd ==
    /\ statement_id \in 1..Len(remote)
    /\ remote[statement_id].sql = sql
    /\ remote[statement_id].status = "FINISHED"
    /\ remote[statement_id].results # <<>>
    /\ Last(remote[statement_id].results).next = None

\* the rows the warehouse produced for the current statement
RemoteRows == Flatten(remote[statement_id].pages)

\* the value a result field carries: null, a number or a string
Carried(field) ==
    IF "isNull" \in DOMAIN field THEN None
    ELSE IF "longValue" \in DOMAIN field THEN field.longValue
    ELSE field.stringValue

\* the schema field spec'd for one information_schema.columns row
ExpectedField(row) ==
    [name |-> Carried(row[1]),
     dataType |-> _map_redshift_type_to_spark(Carried(row[2]).s, Carried(row[5]),
                                              Carried(row[6]), Carried(row[4])),
     nullable |-> (Carried(row[3]) = PyStr(<<"YES">>))]

\* the rows (id integer not null, name varchar(50) nullable)
ExampleColumns ==
    <<(<<Field(<<"id">>), Field(<<"I", "N", "T", "E", "G", "E", "R">>), Field(<<"NO">>),
         NullField, LongField(32), LongField(0), LongField(1)>>),
      (<<Field(<<"name">>), Field(<<"V", "a", "r", "C", "h", "a", "r">>), Field(<<"YES">>),
         LongField(50), NullField, NullField, LongField(2)>>)>>

ExampleSchema ==
    <<[name |-> PyStr(<<"id">>), dataType |-> [type |-> "LongType"], nullable |-> FALSE],
      [name |-> PyStr(<<"name">>), dataType |-> [type |-> "StringType"], nullable |-> TRUE]>>

\* C11: when the column query of get_table_schema returns n >= 1 rows, the
\* schema has exactly n fields in row order, field i carrying row i's column
\* name, the mapped type of its declared type, precision and scale, and
\* nullable false for 'NO' and true for 'YES'; the rows (id integer not null,
\* name varchar(50) nullable) give [(id, LongType, false), (name, StringType,
\* true)]; zero rows make the call fail with the table-not-found error.
C11_SchemaConstruction ==
    (/\ call.op = "get_table_schema"
     /\ sql.kind = "columns"
     /\ pc = "done"
     /\ ReadToEnd)
        => LET rows == RemoteRows
               n == Len(rows)
           IN /\ n = 0 => outcome = Raise("ValueError", "not found or has no columns",
                                          call.table_name)
              /\ n >= 1 =>
                    /\ outcome.kind = "ok"
                    /\ Len(outcome.value) = n
                    /\ \A i \in 1..n :
                          /\ Carried(rows[i][3]).s \in {<<"YES">>, <<"NO">>}
                          /\ outcome.value[i] = ExpectedField(rows[i])
              /\ rows = ExampleColumns => outcome = Return(ExampleSchema)

\* the example schema built from rows that arrived on two pages
C11_Witness ==
    /\ call.op = "get_table_schema"
    /\ pc = "done"
    /\ sql.kind = "columns"
    /\ ReadToEnd
    /\ Len(remote[statement_id].pages) = 2
    /\ RemoteRows = ExampleColumns
    /\ outcome = Return(ExampleSchema)

\* a table without columns reported as not found
C11_WitnessEmpty ==
    /\ call.op = "get_table_schema"
    /\ pc = "done"
    /\ sql.kind = "columns"
    /\ ReadToEnd
    /\ RemoteRows = <<>>
    /\ outcome.kind = "error"

(* ------------------------------------------------------- table reader inputs *)
\* the statements a read_table call has submitted are the catalog query and,
\* after it, one scan
ScanSubmitted == Len(remote) = 2 /\ remote[2].sql.kind = "scan"

\* C12: read_table ignores start_offset: the scan statement is the one a call
\* with the empty offset and the same table and options submits, the records
\* yielded are the rows of its result in order whatever the offset, and every
\* successful call returns the empty offset map.
C12_StartOffsetIgnored ==
    call.op = "read_table" =>
        /\ \A h \in 1..Len(remote) :
              remote[h].sql \in
                 {CatalogSql(self.schema_filter),
                  ScanSql(_parse_table_name(call.table_name)[1],
                          _parse_table_name(call.table_name)[2],
                          EmptyDict, call.table_options)}
        /\ (pc = "execute" /\ Len(remote) = 1) =>
              sql = ScanSql(_parse_table_name(call.table_name)[1],
                            _parse_table_name(call.table_name)[2],
                            EmptyDict, call.table_options)
        /\ outcome.kind = "ok" =>
              /\ outcome.value.offset = EmptyDict
              /\ outcome.value.offset # call.start_offset \/ call.start_offset = EmptyDict
        /\ ScanSubmitted =>
              yielded = Converted(SubSeq(Flatten(remote[2].pages), 1, Len(yielded)))

\* a call handed a cursor returned the empty offset and yielded the first row
C12_Witness ==
    /\ call.op = "read_table"
    /\ call.start_offset # EmptyDict
    /\ outcome.kind = "ok"
    /\ outcome.value.offset = EmptyDict
    /\ ScanSubmitted
    /\ Len(yielded) >= 1

\* the integer each limit option of ReadInputs stands for, empty when it
\* does not parse
ExpectedLimit(limit) ==
    CASE limit = PyStr(<<" ", "0", "1">>) -> <<"1">>
      [] limit = PyStr(<<"0">>) -> <<"0">>
      [] limit = PyStr(<<"2">>) -> <<"2">>
      [] OTHER -> <<>>

\* the scan statement spelled out for the table users of schema public
ExpectedScanText(table_options) ==
    LET where_clause == Get(table_options, "where_clause", None)
        limit == ExpectedLimit(Get(table_options, "limit", None))
    IN <<"SELECT * FROM ", "\"", "public", "\"", ".", "\"", "users", "\"">>
       \o (IF where_clause # None /\ where_clause # PyStr(<<>>)
           THEN <<" WHERE ">> \o where_clause.s ELSE <<>>)
       \o (IF limit # <<>> THEN <<" LIMIT ">> \o limit ELSE <<>>)

\* C13: the scan statement is SELECT * FROM "<schema>"."<table>", followed by
\* " WHERE <where_clause>" verbatim exactly when a non-empty where_clause is
\* given, followed by " LIMIT <n>" exactly when limit parses as the integer n;
\* a limit that does not parse never fails read_table and leaves the
\* statement without LIMIT.
C13_ScanStatement ==
    (call.op = "read_table" /\ call.table_name = <<"public", ".", "users">>) =>
        /\ \A h \in 1..Len(remote) :
              remote[h].sql.kind = "scan" =>
                 remote[h].sql.text = ExpectedScanText(call.table_options)
        /\ (pc = "execute" /\ sql.kind = "scan") =>
              sql.text = ExpectedScanText(call.table_options)
        /\ (/\ "limit" \in DOMAIN call.table_options
            /\ ExpectedLimit(call.table_options.limit) = <<>>
            /\ outcome.kind = "error")
              => \/ NotSupported(outcome)
                 \/ outcome.type = "RuntimeError"

\* a scan with a WHERE suffix and a LIMIT suffix
C13_Witness ==
    /\ call.op = "read_table"
    /\ ScanSubmitted
    /\ Get(call.table_options, "limit", None) = PyStr(<<"2">>)
    /\ remote[2].sql.text =
          <<"SELECT * FROM ", "\"", "public", "\"", ".", "\"", "users", "\"",
            " WHERE ", "id = 1", " LIMIT ", "2">>

\* a scan submitted without LIMIT for a limit option that does not parse
C13_WitnessLenient ==
    /\ call.op = "read_table"
    /\ ScanSubmitted
    /\ Get(call.table_options, "limit", None) = PyStr(<<"1", ".", "5">>)
    /\ remote[2].sql.text =
          <<"SELECT * FROM ", "\"", "public", "\"", ".", "\"", "users", "\"",
            " WHERE ", "id = 1">>
    /\ outcome.kind = "ok"

\* C14: read_table_metadata returns ingestion_type "snapshot" and, as
\* primary_keys, the column names of the key query's rows in query order; a
\* key query without rows gives the empty list, not a failure.
C14_PrimaryKeys ==
    (/\ call.op = "read_table_metadata"
     /\ sql.kind = "keys"
     /\ pc = "done"
     /\ ReadToEnd)
        => LET rows == RemoteRows IN
           /\ outcome.kind = "ok"
           /\ outcome.value.ingestion_type = "snapshot"
           /\ DOMAIN outcome.value = {"primary_keys", "ingestion_type"}
           /\ outcome.value.primary_keys = [i \in 1..Len(rows) |-> Carried(rows[i][1])]
           /\ rows = <<>> => outcome.value.primary_keys = <<>>

\* a two-column key reported in query order
C14_Witness ==
    /\ call.op = "read_table_metadata"
    /\ pc = "done"
    /\ sql.kind = "keys"
    /\ ReadToEnd
    /\ outcome = Return([primary_keys |-> <<PyStr(<<"id">>), PyStr(<<"part2">>)>>,
                         ingestion_type |-> "snapshot"])

\* a table without primary key
C14_WitnessEmpty ==
    /\ call.op = "read_table_metadata"
    /\ pc = "done"
    /\ sql.kind = "keys"
    /\ ReadToEnd
    /\ RemoteRows = <<>>
    /\ outcome = Return([primary_keys |-> <<>>, ingestion_type |-> "snapshot"])

(* ------------------------------------------------------- value decoding  *)
\* the positions in the documented order of the variants a field carries
Present(field_data) == {i \in 1..Len(Variants) : Variants[i] \in DOMAIN field_data}

\* C15: a field whose isNull flag is true decodes to null whatever else it
\* carries; otherwise it decodes to the value, unchanged, of the first variant
\* present in the order booleanValue, longValue, doubleValue, stringValue,
\* blobValue, and to null when it carries none.
C15_DecodingPrecedence ==
    (call.op = "_extract_value" /\ pc = "done") =>
        LET field_data == call.field_data
            present == Present(field_data)
            first == CHOOSE i \in present : \A j \in present : i <= j
        IN /\ outcome.kind = "ok"
           /\ ("isNull" \in DOMAIN field_data /\ field_data.isNull) => outcome.value = None
           /\ ~("isNull" \in DOMAIN field_data /\ field_data.isNull) =>
                 /\ present = {} => outcome.value = None
                 /\ present # {} => outcome.value = field_data[Variants[first]]

\* a field carrying a false boolean and an empty string decoded to the boolean
C15_Witness ==
    /\ call.op = "_extract_value"
    /\ pc = "done"
    /\ DOMAIN call.field_data = {"isNull", "booleanValue", "stringValue"}
    /\ ~call.field_data.isNull
    /\ outcome = Return(PyBool(FALSE))

\* a null field that carries values
C15_WitnessNull ==
    /\ call.op = "_extract_value"
    /\ pc = "done"
    /\ "longValue" \in DOMAIN call.field_data
    /\ Get(call.field_data, "isNull", FALSE)
    /\ outcome = Return(None)

(* ------------------------------------------------------- type mapping   *)
\* two spellings that differ in letter case only
SameName(a, b) ==
    /\ Len(a) = Len(b)
    /\ \A i \in 1..Len(a) :
          \/ a[i] = b[i]
          \/ \E k \in 1..Len(UpperCase) :
                {a[i], b[i]} = {UpperCase[k], LowerCase[k]}

\* the documented table, by the documented name
DocumentedType(name, precision, scale) ==
    CASE name \in {"smallint", "int2", "integer", "int", "int4", "bigint", "int8"} ->
           [type |-> "LongType"]
      [] name \in {"numeric", "decimal"} ->
           [type |-> "DecimalType",
            precision |-> IF precision = None THEN PyInt(18) ELSE precision,
            scale |-> IF scale = None THEN PyInt(0) ELSE scale]
      [] name \in {"real", "float4"} -> [type |-> "FloatType"]
      [] name \in {"double precision", "float8", "float"} -> [type |-> "DoubleType"]
      [] name \in {"boolean", "bool"} -> [type |-> "BooleanType"]
      [] name = "date" -> [type |-> "DateType"]
      [] name \in {"timestamp", "timestamp without time zone", "timestamptz",
                   "timestamp with time zone"} -> [type |-> "TimestampType"]
      [] name = "varbyte" -> [type |-> "BinaryType"]
      [] name \in {"character", "char", "bpchar", "character varying", "varchar", "text",
                   "time", "time without time zone", "timetz", "time with time zone",
                   "interval", "super", "geometry", "geography", "hllsketch"} ->
           [type |-> "StringType"]

\* C16: for every name of the documented table, spelled in any letter case,
\* _map_redshift_type_to_spark returns the documented type (decimal with the
\* given precision and scale, 18 and 0 when absent); for every name that is
\* not in the table it returns string.
C16_TypeMapping ==
    (call.op = "_map_redshift_type_to_spark" /\ pc = "done") =>
        /\ \A name \in DocumentedNames :
              SameName(call.redshift_type, name) =>
                 outcome = Return(DocumentedType(Text(name), call.precision, call.scale))
        /\ (\A name \in DocumentedNames : ~SameName(call.redshift_type, name)) =>
                 outcome = Return([type |-> "StringType"])

\* TIMESTAMP WITH TIME ZONE mapped to timestamp
C16_Witness ==
    /\ call.op = "_map_redshift_type_to_spark"
    /\ pc = "done"
    /\ Text(call.redshift_type) = "TIMESTAMP WITH TIME ZONE"
    /\ outcome = Return([type |-> "TimestampType"])

\* dEcImAl without precision and scale mapped to decimal(18, 0)
C16_WitnessDecimal ==
    /\ call.op = "_map_redshift_type_to_spark"
    /\ pc = "done"
    /\ Text(call.redshift_type) = "dEcImAl"
    /\ outcome = Return([type |-> "DecimalType", precision |-> PyInt(18),
                         scale |-> PyInt(0)])

\* a name outside the table mapped to string
C16_WitnessUnknown ==
    /\ call.op = "_map_redshift_type_to_spark"
    /\ pc = "done"
    /\ Text(call.redshift_type) = "JSON"
    /\ outcome = Return([type |-> "StringType"])

(* ------------------------------------------------------- construction and addressing *)
\* an option is supplied when the map holds a non-empty value for it
Supplied(options, key) == key \in DOMAIN options /\ options[key] # PyStr(<<>>)

\* the poll options are absent or decimal numbers
NumericPollOptions(options) ==
    \A key \in {"poll_interval", "max_poll_attempts"} :
        key \in DOMAIN options =>
            /\ options[key].s # <<>>
            /\ \A i \in 1..Len(options[key].s) : IsDigit(options[key].s[i])

\* region and database are supplied together with exactly one target
WellTargeted(options) ==
    /\ Supplied(options, "region")
    /\ Supplied(options, "database")
    /\ Supplied(options, "cluster_identifier") # Supplied(options, "workgroup_name")

\* the constructor has run and no call was made since
Constructed == call.op = "__init__" /\ pc # "new"

\* C17: construction fails with a configuration error when region is absent,
\* when database is absent, when neither or both of cluster_identifier and
\* workgroup_name are supplied; with region, database, exactly one target and
\* numeric poll options it succeeds; a failed construction leaves no instance,
\* builds no client and sends no request.
C17_ConstructionValidation ==
    Constructed =>
        /\ ~WellTargeted(call.options) =>
              /\ pc = "done"
              /\ outcome.kind = "error"
              /\ outcome.type = "ValueError"
              /\ outcome.text # InvalidLiteral
        /\ (WellTargeted(call.options) /\ NumericPollOptions(call.options)) =>
              /\ pc = "idle"
              /\ outcome = NoOutcome
              /\ self # NoInstance
              /\ self.options = call.options
        /\ pc = "done" =>
              /\ self = NoInstance
              /\ boto3 = <<>>
              /\ requests = <<>>
              /\ remote = <<>>

\* a construction with both targets has failed
C17_Witness ==
    /\ Constructed
    /\ pc = "done"
    /\ Supplied(call.options, "region")
    /\ Supplied(call.options, "database")
    /\ Supplied(call.options, "cluster_identifier")
    /\ Supplied(call.options, "workgroup_name")
    /\ outcome.kind = "error"
    /\ boto3 = <<>>

\* a construction for a workgroup has succeeded
C17_WitnessSuccess ==
    /\ Constructed
    /\ pc = "idle"
    /\ self # NoInstance
    /\ self.workgroup_name = PyStr(<<"wg-1">>)
    /\ self.cluster_identifier = None

\* the target keys an execute_statement request carries
TargetKeys(params) == DOMAIN params \cap {"ClusterIdentifier", "WorkgroupName"}

\* C18: whatever calls, serializations and restores came before, every
\* execute_statement request carries exactly one of ClusterIdentifier and
\* WorkgroupName, with the value given at construction; DbUser is sent exactly
\* when the target is a cluster and db_user is configured, never with a
\* workgroup.
C18_ExclusiveAddressing ==
    \A i \in 1..Len(requests) :
        LET params == requests[i].params
            options == self.options
        IN /\ Cardinality(TargetKeys(params)) = 1
           /\ Supplied(options, "cluster_identifier") =>
                 /\ TargetKeys(params) = {"ClusterIdentifier"}
                 /\ params.ClusterIdentifier = options.cluster_identifier
                 /\ "DbUser" \in DOMAIN params <=> Supplied(options, "db_user")
                 /\ "DbUser" \in DOMAIN params => params.DbUser = options.db_user
           /\ Supplied(options, "workgroup_name") =>
                 /\ TargetKeys(params) = {"WorkgroupName"}
                 /\ params.WorkgroupName = options.workgroup_name
                 /\ "DbUser" \notin DOMAIN params

\* two requests to a workgroup, the second by a restored instance, from a
\* connector configured with a database user
C18_Witness ==
    /\ Len(requests) >= 2
    /\ requests[1].client # requests[2].client
    /\ Supplied(self.options, "workgroup_name")
    /\ Supplied(self.options, "db_user")
    /\ TargetKeys(requests[2].params) = {"WorkgroupName"}

\* a request to a cluster that carries the database user
C18_WitnessCluster ==
    /\ Len(requests) >= 1
    /\ "DbUser" \in DOMAIN requests[1].params
    /\ "ClusterIdentifier" \in DOMAIN requests[1].params

(* ------------------------------------------------------- catalog filtering *)
\* the schema of a "schema.table" entry
SchemaOf(entry) == SubSeq(entry, 1, FirstDot(entry, 1) - 1)

\* the trimmed entries of each schema_filter option that has a non-blank entry
AllowList(options) ==
    LET schema_filter == Get(options, "schema_filter", PyStr(<<>>)).s IN
    CASE schema_filter = <<"public", ",", " ", "sales">> -> {<<"public">>, <<"sales">>}
      [] schema_filter = <<"pg_catalog", ",", "public">> -> {<<"pg_catalog">>, <<"public">>}
      [] OTHER -> {}

\* C19: list_tables never returns an entry of pg_catalog, information_schema
\* or pg_internal, even when the allow-list names one of them; with an
\* allow-list that has a non-blank entry every returned entry's schema is one
\* of the trimmed entries; with an absent, empty or blank allow-list the list
\* is the unrestricted one.
C19_CatalogFiltering ==
    (call.op = "list_tables" /\ pc = "done" /\ outcome.kind = "ok") =>
        LET tables == outcome.value
            allowed == AllowList(self.options)
        IN /\ \A i \in 1..Len(tables) :
                 /\ SchemaOf(tables[i]) \notin
                       {<<"pg_catalog">>, <<"information_schema">>, <<"pg_internal">>}
                 /\ allowed # {} => SchemaOf(tables[i]) \in allowed
           /\ allowed = {} =>
                 \E n \in CatalogSizes : tables = ListedTables(RawCatalog(n))

\* an allow-list naming pg_catalog and public: only public.users is listed
C19_Witness ==
    /\ call.op = "list_tables"
    /\ pc = "done"
    /\ AllowList(self.options) = {<<"pg_catalog">>, <<"public">>}
    /\ outcome = Return(<<(<<"public", ".", "users">>)>>)
    /\ remote[1].sql.schema_in # None
    /\ Len(Flatten(remote[1].pages)) = 1

\* a blank allow-list: tables of every user schema are listed
C19_WitnessBlank ==
    /\ call.op = "list_tables"
    /\ pc = "done"
    /\ Get(self.options, "schema_filter", None) = PyStr(<<" ", ",", " ">>)
    /\ outcome.kind = "ok"
    /\ \E i \in 1..Len(outcome.value) : SchemaOf(outcome.value[i]) = <<"sales">>
    /\ \E i \in 1..Len(outcome.value) : SchemaOf(outcome.value[i]) = <<"public">>

\* an allow-list with a blank after the comma: tables of sales are listed
C19_WitnessTrimmed ==
    /\ call.op = "list_tables"
    /\ pc = "done"
    /\ AllowList(self.options) = {<<"public">>, <<"sales">>}
    /\ outcome.kind = "ok"
    /\ \E i \in 1..Len(outcome.value) : SchemaOf(outcome.value[i]) = <<"sales">>

(* ------------------------------------------------------- client life cycle *)
\* the connection configuration boto3.client is to be called with
ExpectedKwargs(options) ==
    [region_name |-> options.region]
    @@ (IF Supplied(options, "access_key_id") /\ Supplied(options, "secret_access_key")
        THEN [aws_access_key_id |-> options.access_key_id,
              aws_secret_access_key |-> options.secret_access_key]
             @@ (IF Supplied(options, "session_token")
                 THEN [aws_session_token |-> options.session_token]
                 ELSE EmptyDict)
        ELSE EmptyDict)

\* no client before the first remote call, serialized state without client,
\* every client built from the connection configuration, and the serving
\* instance using the client it built itself
ClientState ==
    /\ requests = <<>> => boto3 = <<>>
    /\ (self # NoInstance /\ requests = <<>>) => self._client = None
    /\ pickled # None => pickled._client = None
    /\ \A i \in 1..Len(boto3) : boto3[i] = ExpectedKwargs(self.options)
    /\ \A i \in 1..Len(requests) : requests[i].client.client \in 1..Len(boto3)
    /\ (self # NoInstance /\ self._client # None) =>
          /\ requests # <<>>
          /\ self._client = [client |-> Len(boto3)]
          /\ self._client = requests[Len(requests)].client

\* a client is built only by an instance without one, which keeps it; an
\* instance with a client sends its requests through that client;
\* serializing leaves the instance as it is; the restored instance has the
\* attributes of the serialized one and no client
ClientStep ==
    /\ boto3' # boto3 =>
          /\ self._client = None
          /\ boto3' = Append(boto3, ExpectedKwargs(self.options))
          /\ self' = [self EXCEPT !._client = [client |-> Len(boto3) + 1]]
    /\ (self # NoInstance /\ self._client # None /\ requests' # requests) =>
          /\ boto3' = boto3
          /\ self' = self
          /\ requests'[Len(requests')].client = self._client
    /\ pickled' # pickled =>
          /\ self' = self
          /\ pickled' = [self EXCEPT !._client = None]
    /\ (self # NoInstance /\ self' # self /\ boto3' = boto3) =>
          /\ self' = pickled
          /\ self'._client = None

\* C20: no client exists after construction until the first remote call; an
\* instance builds its client at most once and reuses it; a serialized state
\* never holds a client, also when the instance has one, and serializing
\* leaves the instance's client in place; a restored instance builds a new
\* client of its own on its first remote call, with the same connection
\* configuration.
C20_LazyClient == [](ClientState) /\ [][ClientStep]_vars

\* the instance was serialized while it had a client; the restored instance
\* sent a request through a second client built with the same credentials
C20_Witness ==
    /\ Len(boto3) = 2
    /\ Len(requests) >= 2
    /\ requests[1].client = [client |-> 1]
    /\ requests[Len(requests)].client = [client |-> 2]
    /\ pickled # None
    /\ pickled._client = None
    /\ self._client = [client |-> 2]
    /\ boto3[2] = boto3[1]
    /\ "aws_session_token" \in DOMAIN boto3[2]

\* an instance that was serialized still has its client
C20_WitnessKept ==
    /\ Len(boto3) = 1
    /\ pickled # None
    /\ self._client = [client |-> 1]
    /\ Len(requests) >= 2

(* ------------------------------------------------------- rejection message *)
\* C24: whenever get_table_schema, read_table_metadata or read_table rejects a
\* name that is not in the catalog, the message of the error holds the
\* rejected name together with the list of available tables, for catalogs of
\* at most 10 tables as for larger ones.
C24_MessageNamesTable ==
    (ValidatingCall /\ NotSupported(outcome)) =>
        /\ outcome.detail.named = <<call.table_name>>
        /\ outcome.detail.tables =
              SubSeq(available_tables, 1, Min(10, Len(available_tables)))

(* ------------------------------------------------------- protocol order  *)
\* the errors that give a statement up before any of its result is fetched:
\* a rejected submission, a describe error, FAILED, ABORTED and the timeout
GivenUpTexts ==
    {"Failed to execute SQL statement", "Failed to describe statement",
     "SQL statement failed", "SQL statement was aborted", "Statement timed out"}

GivenUp == outcome.kind = "error" /\ outcome.text \in GivenUpTexts

\* a result was requested for a handle only after a describe call reported it
\* FINISHED, and a statement follows another only once that one was fetched
ResultsAfterFinished ==
    \A h \in 1..Len(remote) :
        /\ remote[h].results # <<>> =>
              /\ remote[h].status = "FINISHED"
              /\ remote[h].describes >= 1
        /\ h < Len(remote) =>
              /\ remote[h].status = "FINISHED"
              /\ remote[h].results # <<>>
        /\ (GivenUp /\ h = Len(remote)
              /\ outcome.text # "Failed to execute SQL statement") =>
              remote[h].results = <<>>

\* a step requests a result only for a handle already reported FINISHED, and
\* once the operation gave a statement up it sends nothing more
ProtocolStep ==
    /\ \A h \in 1..Len(remote) :
          remote'[h].results # remote[h].results => remote[h].status = "FINISHED"
    /\ GivenUp => (remote' = remote /\ requests' = requests)

\* C22: in list_tables, get_table_schema, read_table_metadata and read_table a
\* result is requested for a handle only after execute_statement returned the
\* handle and a describe call reported it FINISHED; after FAILED, ABORTED, a
\* timeout, a describe error or a rejected submission no result is fetched for
\* the handle and the operation submits no further statement.
C22_ProtocolOrder == [](ResultsAfterFinished) /\ [][ProtocolStep]_vars

\* read_table_metadata gave up its second statement on FAILED: the catalog
\* statement was fetched, the second one never
C22_Witness ==
    /\ call.op = "read_table_metadata"
    /\ Len(remote) = 2
    /\ remote[1].results # <<>>
    /\ remote[2].status = "FAILED"
    /\ remote[2].results = <<>>
    /\ outcome.kind = "error"
    /\ outcome.text = "SQL statement failed"
    /\ Len(requests) = 2

(* ------------------------------------------------------- eager submit, lazy fetch *)
\* the request log of the scan statement, empty while none was accepted
ScanLog == IF ScanSubmitted THEN remote[2].results ELSE <<>>

\* read_table is still running: its scan statement has no result request yet
\* and no iterator exists
BeforeReturn ==
    (call.op = "read_table" /\ outcome = NoOutcome) =>
        /\ gen = NoGenerator
        /\ pc # "metadata" => ScanLog = <<>>
        /\ pc = "metadata" => (ScanLog = <<>> /\ remote[2].status = "FINISHED")

\* read_table returned its iterator: the scan statement was submitted, polled
\* to FINISHED and asked once, without a cursor, for its column metadata
AtReturn ==
    (call.op = "read_table" /\ outcome.kind = "ok") =>
        /\ ScanSubmitted
        /\ remote[2].status = "FINISHED"
        /\ remote[2].describes >= 1
        /\ gen # NoGenerator
        /\ Len(ScanLog) >= 1
        /\ ScanLog[1].token = None
        /\ ScanLog[1].next # ClientError
        /\ gen.pc = "created" => Len(ScanLog) = 1

\* a scan statement that failed, was aborted, timed out or whose metadata
\* request failed makes read_table itself raise: no iterator was handed out
RaisedByCall ==
    (ScanSubmitted /\ pc = "done"
        /\ (remote[2].status # "FINISHED" \/ ScanLog[1].next = ClientError)) =>
        /\ outcome.kind = "error"
        /\ outcome.type = "RuntimeError"
        /\ gen = NoGenerator
        /\ yielded = <<>>
        /\ Len(ScanLog) <= 1

\* the iterator's first request repeats the cursor-less one, and a scan of p
\* pages read to its end was asked p + 1 times
RequestedTwice ==
    /\ Len(ScanLog) >= 2 =>
          /\ ScanLog[2].token = None
          /\ gen.pc \notin {"none", "created"}
    /\ (gen.pc = "running" /\ gen.fetched = 0) => Len(ScanLog) = 1
    /\ gen.pc = "exhausted" => Len(ScanLog) = Len(remote[2].pages) + 1

\* a request reaches the scan statement after the return only from the
\* advanced iterator, and the first thing the advanced iterator does is the
\* second cursor-less request
LazyStep ==
    /\ (outcome.kind = "ok" /\ ScanSubmitted /\ remote'[2].results # remote[2].results) =>
          gen.pc = "running"
    /\ (gen.pc = "running" /\ gen.fetched = 0 /\ gen' # gen) =>
          /\ Len(remote'[2].results) = 2
          /\ remote'[2].results[2].token = None
    /\ (gen.pc = "created" /\ gen' # gen) =>
          (gen'.pc = "running" /\ remote' = remote)

\* C23: read_table submits the scan statement, polls it to a terminal state
\* and makes one cursor-less result request before it returns, so a failed,
\* aborted or timed-out statement and a failed metadata request are raised by
\* the call and not by the iterator; nothing more is requested until the
\* iterator is first advanced, that advance sends a second cursor-less request
\* for the same handle, and a fully consumed scan of p pages has made p + 1
\* result requests.
C23_EagerSubmitLazyFetch ==
    /\ [](BeforeReturn /\ AtReturn /\ RaisedByCall /\ RequestedTwice)
    /\ [][LazyStep]_vars

\* a scan of three pages consumed to its end: four result requests, the
\* first two without a cursor
C23_Witness ==
    /\ call.op = "read_table"
    /\ ScanSubmitted
    /\ gen # NoGenerator
    /\ gen.pc = "exhausted"
    /\ Len(remote[2].pages) = 3
    /\ Len(remote[2].results) = 4
    /\ remote[2].results[1].token = None
    /\ remote[2].results[2].token = None
    /\ yielded # <<>>

(* ------------------------------------------------------- concurrent readers *)
MaxReaders == 2

\* the instance and the local variables of the reader that is running
ReaderFrame ==
    [self |-> self, call |-> call, pc |-> pc, sql |-> sql,
     statement_id |-> statement_id, attempt |-> attempt, polls |-> polls,
     sleeps |-> sleeps, wait_result |-> wait_result, records |-> records,
     next_token |-> next_token, available_tables |-> available_tables,
     column_names |-> column_names, outcome |-> outcome, gen |-> gen,
     yielded |-> yielded]

\* faulty variant: next_token is shared, a reader that is resumed finds the
\* cursor the reader before it left
Resumed_SharedToken(frame) ==
    [frame EXCEPT !.next_token = next_token,
                  !.gen = IF @ # NoGenerator /\ gen # NoGenerator
                          THEN [@ EXCEPT !.next_token = gen.next_token]
                          ELSE @]

\* next_token = None, lines 203 and 596: the cursor is a local variable of
\* _get_statement_results and of record_generator, a reader that is resumed
\* finds its own
Resumed(frame) == frame

\* the next step of the running reader is a request to the service
AtRemoteCall ==
    \/ pc \in {"execute", "wait", "fetch", "metadata"}
    \/ /\ gen # NoGenerator
       /\ gen.pc = "running"
       /\ gen.records = <<>>
       /\ gen.fetched = 0 \/ ~LastPage(gen.next_token)

\* the running reader has nothing left to do
Stopped ==
    /\ pc = "done"
    /\ gen = NoGenerator \/ gen.pc \in {"exhausted", "raised"}

\* another reader runs.  The readers share nothing but the service, so they
\* are interleaved at their requests to it: the steps between two requests
\* touch the locals of one reader only
Switch(i) ==
    /\ i \in 1..Len(others)
    /\ AtRemoteCall \/ Stopped
    /\ others' = [others EXCEPT ![i] = ReaderFrame]
    /\ LET frame == Resumed(others[i]) IN
       /\ self' = frame.self
       /\ call' = frame.call
       /\ pc' = frame.pc
       /\ sql' = frame.sql
       /\ statement_id' = frame.statement_id
       /\ attempt' = frame.attempt
       /\ polls' = frame.polls
       /\ sleeps' = frame.sleeps
       /\ wait_result' = frame.wait_result
       /\ records' = frame.records
       /\ next_token' = frame.next_token
       /\ available_tables' = frame.available_tables
       /\ column_names' = frame.column_names
       /\ outcome' = frame.outcome
       /\ gen' = frame.gen
       /\ yielded' = frame.yielded
    /\ UNCHANGED <<pickled, clientVars, remote>>

\* a reader instance that has not been called
IdleReader ==
    [self |-> __init__(ClusterOptions(1)).value, call |-> [op |-> "none"],
     pc |-> "idle", sql |-> CatalogSql(None), statement_id |-> 0, attempt |-> 0,
     polls |-> <<>>, sleeps |-> 0, wait_result |-> NoOutcome, records |-> <<>>,
     next_token |-> None, available_tables |-> <<>>, column_names |-> <<>>,
     outcome |-> NoOutcome, gen |-> NoGenerator, yielded |-> <<>>]

\* the result the warehouse produces for the readers: the full catalog in
\* pages of 5 rows, scans of two pages with one row each
ReadersResult(statement) ==
    IF statement.kind = "catalog"
    THEN [pages |-> Chunk(CatalogResult(statement, MaxTables), 5),
          columns |-> <<[name |-> "table_schema"], [name |-> "table_name"]>>]
    ELSE [pages |-> <<(<<ScanRow(1)>>), (<<ScanRow(2)>>)>>, columns |-> ScanColumns]

\* the statement of the running reader is reported FINISHED at its first poll
ReadersDescribe == Describe([Status |-> "FINISHED"], ReadersResult(sql))

\* MaxReaders reader instances on one service, none called yet
ReadersInit ==
    /\ self = IdleReader.self
    /\ call = IdleReader.call
    /\ pc = IdleReader.pc
    /\ sql = IdleReader.sql
    /\ statement_id = IdleReader.statement_id
    /\ attempt = IdleReader.attempt
    /\ polls = IdleReader.polls
    /\ sleeps = IdleReader.sleeps
    /\ wait_result = IdleReader.wait_result
    /\ records = IdleReader.records
    /\ next_token = IdleReader.next_token
    /\ available_tables = IdleReader.available_tables
    /\ column_names = IdleReader.column_names
    /\ outcome = IdleReader.outcome
    /\ gen = IdleReader.gen
    /\ yielded = IdleReader.yielded
    /\ others = [i \in 1..(MaxReaders - 1) |-> IdleReader]
    /\ pickled = None
    /\ boto3 = <<>>
    /\ requests = <<>>
    /\ remote = <<>>

ReadersNext ==
    \/ Call("read_table", <<"public", ".", "users">>, EmptyDict, EmptyDict)
    \/ ExecuteAccepted
    \/ ReadersDescribe
    \/ WaitReturns
    \/ GetStatementResults
    \/ GetColumnMetadata
    \/ ConsumerNext
    \/ GeneratorFetch
    \/ GeneratorYield
    \/ GeneratorReturn
    \/ \E i \in 1..(MaxReaders - 1) : Switch(i)

ReadersSpec == ReadersInit /\ [][ReadersNext]_vars

\* every reader, the running one first
Readers == <<ReaderFrame>> \o others

\* every cursor a request carries was returned by an earlier response for the
\* handle of the request
CursorsOwned ==
    \A h \in 1..Len(remote) :
        LET log == remote[h].results IN
        \A i \in 1..Len(log) :
            log[i].token # None =>
                /\ log[i].token.h = h
                /\ \E j \in 1..(i - 1) : log[j].next = log[i].token

\* no two readers work on one handle
OwnHandles ==
    \A a, b \in 1..Len(Readers) :
        (a # b /\ Readers[a].statement_id > 0) =>
            Readers[a].statement_id # Readers[b].statement_id

\* what reader r has collected or yielded is what the pages of its own
\* statement hold, in page order, whatever the other readers did
Unaffected(r) ==
    LET st == remote[r.statement_id]
        rows == Flatten(st.pages)
        all == [i \in 1..Len(rows) |-> RecordDict(rows[i], r.column_names)]
    IN /\ r.pc = "fetch" => r.records = Flatten(SubSeq(st.pages, 1, Len(st.results)))
       /\ r.gen # NoGenerator =>
             /\ Len(r.yielded) <= Len(all)
             /\ r.yielded = SubSeq(all, 1, Len(r.yielded))
             /\ r.gen.pc = "exhausted" => r.yielded = all

\* C21: in every interleaving of the readers, and of the catalog and the scan
\* statement inside one read_table, every result request that carries a
\* cursor carries one that an earlier response for the same handle returned,
\* no cursor is sent with another handle, and the records a reader yields are
\* those of its own statement.
C21_CursorIsolation ==
    /\ CursorsOwned
    /\ OwnHandles
    /\ \A i \in 1..Len(Readers) : Readers[i].statement_id > 0 => Unaffected(Readers[i])

\* two readers whose statements were submitted alternately have both streamed
\* a two-page scan to its end
C21_Witness ==
    /\ Len(others) = 1
    /\ Len(remote) = 4
    /\ {statement_id, others[1].statement_id} = {3, 4}
    /\ \A i \in 1..2 :
          /\ Readers[i].gen # NoGenerator
          /\ Readers[i].gen.pc = "exhausted"
          /\ Len(Readers[i].yielded) = 2
          /\ Len(remote[Readers[i].statement_id].results) = 3
          /\ remote[Readers[i].statement_id].results[3].token =
                Cursor(Readers[i].statement_id, 2)

====
